---- MODULE Spec2Model ----
(***************************************************************************)
(* Leaderboard server of web-minigame-factory (src/unnamed/part_007):      *)
(* the LeaderboardStore class, its debounced persistence, its subscribers  *)
(* and the season clock, as a state machine.                               *)
(*                                                                         *)
(* Strings are sequences of one-character strings, so that trimming,       *)
(* stripping and truncation are computed.  Times are milliseconds since    *)
(* the epoch, as in the source; the runs sit in January 1970 so that every *)
(* instant fits TLC's 32-bit integers.                                     *)
(***************************************************************************)
EXTENDS Integers, Sequences, FiniteSets, TLC

\* ------------------------------------------------------------ constants
MAX_BODY_SIZE == 128 * 1024
SAVE_DEBOUNCE_MS == 800
HEARTBEAT_MS == 25000
HOUR_MS == 60 * 60 * 1000
DAY_MS == 24 * HOUR_MS
WEEK_MS == 7 * DAY_MS
KST_OFFSET_MS == 9 * HOUR_MS
KST_RESET_HOUR == 9

\* ------------------------------------------------------------ bounds
\* Clock ticks of a run; one tick is as long as the debounce, so that a timer
\* is due one tick after it was set and runs then or later.
MaxTicks == 2
TickMs == SAVE_DEBOUNCE_MS
\* syncPlayer / ensureActiveSeason stop bumping revision at this value.
MaxRevision == 4

\* ------------------------------------------------------------ values
Max(a, b) == IF a >= b THEN a ELSE b
Min(a, b) == IF a <= b THEN a ELSE b

\* A JavaScript value that is a string, or one that is not (undefined, null,
\* a number, an object): typeof value === 'string' tells them apart.
Str(chars) == [kind |-> "string", chars |-> chars]
NotAString == [kind |-> "undefined", chars |-> <<>>]

\* A JavaScript value handed to Number(): a finite number num/den, a numeric
\* string of that value, null, or something Number() maps to NaN or Infinity.
Num(n) == [kind |-> "number", num |-> n, den |-> 1]
Frac(n, d) == [kind |-> "number", num |-> n, den |-> d]
NumStr(n) == [kind |-> "numstr", num |-> n, den |-> 1]
JsNull == [kind |-> "null", num |-> 0, den |-> 1]
JsUndefined == [kind |-> "undefined", num |-> 0, den |-> 1]
JsText == [kind |-> "text", num |-> 0, den |-> 1]
JsInfinity == [kind |-> "infinity", num |-> 0, den |-> 1]
JsNaN == [kind |-> "nan", num |-> 0, den |-> 1]
JsObject == [kind |-> "object", num |-> 0, den |-> 1]
JsBool(b) == [kind |-> "boolean", num |-> IF b THEN 1 ELSE 0, den |-> 1]
JsEmptyString == [kind |-> "empty", num |-> 0, den |-> 1]

\* Number(value): the numeric value, with its finiteness.
ToNumber(value) ==
    CASE value.kind \in {"number", "numstr", "boolean"} ->
            [finite |-> TRUE, num |-> value.num, den |-> value.den]
      [] value.kind \in {"null", "empty"} -> [finite |-> TRUE, num |-> 0, den |-> 1]
      [] OTHER -> [finite |-> FALSE, num |-> 0, den |-> 1]

\* Math.floor of num/den (den > 0).
Floor(num, den) == num \div den

toSafeScore(value) ==
    LET parsed == ToNumber(value)
    IN  IF ~parsed.finite THEN 0 ELSE Max(0, Floor(parsed.num, parsed.den))

toSafeTimestamp(value, fallback) ==
    LET parsed == ToNumber(value)
    IN  IF ~parsed.finite THEN fallback ELSE Max(0, Floor(parsed.num, parsed.den))

\* A clampTopLimit without the Math.min(50, ...).
clampTopLimitNoCeiling(limitCount) ==
    LET parsed == ToNumber(limitCount)
    IN  IF ~parsed.finite THEN 10 ELSE Max(1, Floor(parsed.num, parsed.den))

clampTopLimit(limitCount) ==
    LET parsed == ToNumber(limitCount)
    IN  IF ~parsed.finite THEN 10
        ELSE Max(1, Min(50, Floor(parsed.num, parsed.den)))

\* ------------------------------------------------------------ strings
IsSpace(c) == c \in {" ", "\t", "\n"}

RECURSIVE TrimLeft(_)
TrimLeft(s) == IF s # <<>> /\ IsSpace(Head(s)) THEN TrimLeft(Tail(s)) ELSE s

RECURSIVE TrimRight(_)
TrimRight(s) ==
    IF s # <<>> /\ IsSpace(s[Len(s)]) THEN TrimRight(SubSeq(s, 1, Len(s) - 1)) ELSE s

Trim(s) == TrimRight(TrimLeft(s))

\* String.prototype.slice(0, n)
Slice(s, n) == IF Len(s) > n THEN SubSeq(s, 1, n) ELSE s

sanitizeString(value, fallback, maxLength) ==
    LET raw == IF value.kind = "string" THEN Trim(value.chars) ELSE <<>>
    IN  IF raw = <<>> THEN fallback ELSE Slice(raw, maxLength)

\* The characters of [a-zA-Z0-9_\-:.]
IdChars ==
    {"a", "b", "c", "d", "e", "f", "g", "h", "i", "j", "k", "l", "m",
     "n", "o", "p", "q", "r", "s", "t", "u", "v", "w", "x", "y", "z",
     "A", "B", "C", "D", "E", "F", "G", "H", "I", "J", "K", "L", "M",
     "N", "O", "P", "Q", "R", "S", "T", "U", "V", "W", "X", "Y", "Z",
     "0", "1", "2", "3", "4", "5", "6", "7", "8", "9", "_", "-", ":", "."}

\* base.replace(/[^a-zA-Z0-9_\-:.]/g, '')
StripNonId(s) == SelectSeq(s, LAMBDA c : c \in IdChars)

sanitizeId(value, fallback) ==
    LET base == sanitizeString(value, fallback, 96)
    IN  IF base = <<>> THEN <<>> ELSE Slice(StripNonId(base), 96)

\* ------------------------------------------------------------ season clock
Digit(n) == <<"0", "1", "2", "3", "4", "5", "6", "7", "8", "9">>[n + 1]

\* new Date(ms).toISOString().slice(0, 10): the calendar date YYYY-MM-DD of the
\* day number ms div DAY_MS counted from 1970-01-01 (years 0000 to 9999).
IsoDate(ms) ==
    LET z == (ms \div DAY_MS) + 719468
        era == z \div 146097
        doe == z - era * 146097
        yoe == (doe - (doe \div 1460) + (doe \div 36524) - (doe \div 146096)) \div 365
        doy == doe - (365 * yoe + (yoe \div 4) - (yoe \div 100))
        mp == (5 * doy + 2) \div 153
        d == doy - ((153 * mp + 2) \div 5) + 1
        m == IF mp < 10 THEN mp + 3 ELSE mp - 9
        y == yoe + era * 400 + (IF m <= 2 THEN 1 ELSE 0)
    IN  <<Digit(y \div 1000), Digit((y \div 100) % 10), Digit((y \div 10) % 10),
          Digit(y % 10), "-", Digit(m \div 10), Digit(m % 10), "-",
          Digit(d \div 10), Digit(d % 10)>>

SeasonIdPrefix == <<"k", "s", "t", "-", "w", "e", "e", "k", "-">>

\* Date.prototype.getUTCDay: 0 = Sunday; 1970-01-01 was a Thursday.
UTCDay(ms) == ((ms \div DAY_MS) + 4) % 7

\* computeKstSeasonWindow without the step back of a week before Monday 09:00.
computeKstSeasonWindowNoStepBack(nowMs) ==
    LET kstNowMs == nowMs + KST_OFFSET_MS
        startOfTodayKstMs == (kstNowMs \div DAY_MS) * DAY_MS
        daysSinceMonday == (UTCDay(kstNowMs) + 6) % 7
        seasonStartKstMs == startOfTodayKstMs - (daysSinceMonday * DAY_MS)
                              + (KST_RESET_HOUR * HOUR_MS)
    IN  [id |-> SeasonIdPrefix \o IsoDate(seasonStartKstMs),
         startAt |-> seasonStartKstMs - KST_OFFSET_MS,
         endAt |-> seasonStartKstMs + WEEK_MS - KST_OFFSET_MS]

computeKstSeasonWindow(nowMs) ==
    LET kstNowMs == nowMs + KST_OFFSET_MS
        startOfTodayKstMs == (kstNowMs \div DAY_MS) * DAY_MS
        dayOfWeek == UTCDay(kstNowMs)
        daysSinceMonday == (dayOfWeek + 6) % 7
        firstStart == startOfTodayKstMs - (daysSinceMonday * DAY_MS)
                        + (KST_RESET_HOUR * HOUR_MS)
        seasonStartKstMs == IF kstNowMs < firstStart THEN firstStart - WEEK_MS
                            ELSE firstStart
        seasonEndKstMs == seasonStartKstMs + WEEK_MS
    IN  [id |-> SeasonIdPrefix \o IsoDate(seasonStartKstMs),
         startAt |-> seasonStartKstMs - KST_OFFSET_MS,
         endAt |-> seasonEndKstMs - KST_OFFSET_MS]

\* ------------------------------------------------------------ store records
EmptyMap == [k \in {} |-> 0]

\* An Error with its message and statusCode; NoError: nothing was thrown.
NoError == [message |-> "", statusCode |-> 0]
InvalidPlayerId == [message |-> "invalid-player-id", statusCode |-> 400]
BodyTooLarge == [message |-> "request-body-too-large", statusCode |-> 413]
InvalidJson == [message |-> "invalid-json", statusCode |-> 400]
ListenerError == [message |-> "listener-failed", statusCode |-> 0]

DefaultNickname == <<"P", "l", "a", "y", "e", "r">>
DefaultAvatar == <<"d", "e", "f", "a", "u", "l", "t">>

createEmptyState(nowMs) ==
    [revision |-> 1,
     updatedAt |-> nowMs,
     season |-> computeKstSeasonWindow(nowMs),
     players |-> <<>>]

\* state.players is a JavaScript object: its keys keep their insertion order, so
\* it is the sequence of its records, each under its uid.
PlayerIndex(players, uid) ==
    IF \E i \in 1..Len(players) : players[i].uid = uid
    THEN CHOOSE i \in 1..Len(players) : players[i].uid = uid
    ELSE 0

HasPlayer(players, uid) == PlayerIndex(players, uid) # 0

\* An assignment that keeps no other player's record.
PutPlayerAlone(players, record) == <<record>>

\* players[uid] = record
PutPlayer(players, record) ==
    LET i == PlayerIndex(players, record.uid)
    IN  IF i = 0 THEN Append(players, record)
        ELSE [players EXCEPT ![i] = record]

\* gameScores[gameId], undefined read as toSafeScore reads it
ScoreOf(gameScores, gameId) ==
    IF gameId \in DOMAIN gameScores THEN toSafeScore(Num(gameScores[gameId])) ELSE 0

RECURSIVE SumOver(_, _)
SumOver(gameScores, keys) ==
    IF keys = {} THEN 0
    ELSE LET k == CHOOSE x \in keys : TRUE
         IN  toSafeScore(Num(gameScores[k])) + SumOver(gameScores, keys \ {k})

\* Object.values(gameScores).reduce((sum, score) => sum + toSafeScore(score), 0)
SumScores(gameScores) == SumOver(gameScores, DOMAIN gameScores)

\* ------------------------------------------------------------ the store object
\* The fields of the LeaderboardStore instance, the timers it has set on the
\* event loop, what its listeners were called with during the current call
\* (notified) and the error the current call has thrown so far.

\* An invalidation that leaves the per-game caches.
invalidateOverallCacheOnly(s) == [s EXCEPT !.overallCache = <<>>]

invalidateRankingCache(s) ==
    [s EXCEPT !.overallCache = <<>>, !.gameCacheMap = EmptyMap]

\* A schedulePersist that sets a timer at every call, one pending or not.
schedulePersistAlways(s, t) ==
    [s EXCEPT !.persistTimer = <<t + SAVE_DEBOUNCE_MS>>,
              !.timers = Append(@, t + SAVE_DEBOUNCE_MS)]

\* setTimeout(callback, SAVE_DEBOUNCE_MS) unless a timer is held
schedulePersist(s, t) ==
    IF s.persistTimer # <<>> THEN s
    ELSE [s EXCEPT !.persistTimer = <<t + SAVE_DEBOUNCE_MS>>,
                   !.timers = Append(@, t + SAVE_DEBOUNCE_MS)]

\* Listeners: the server's own subscriber, which catches its write failures, and
\* one whose callback throws.
Listeners == {"sse", "faulty"}
ListenerThrows(l) == l = "faulty"

\* listener(payload)
InvokeListener(s, l, payload) ==
    LET called == [s EXCEPT !.notified =
                       Append(@, [listener |-> l, revision |-> payload.revision,
                                  season |-> payload.season])]
    IN  IF ListenerThrows(l) THEN [called EXCEPT !.thrown = ListenerError] ELSE called

\* A call of the listener outside any try: what it throws reaches the caller.
InvokeListenerUncaught(s, l, payload) == InvokeListener(s, l, payload)

\* try { listener(payload) } catch (error) { console.warn(...) }
TryInvokeListener(s, l, payload) ==
    LET r == InvokeListener(s, l, payload)
    IN  [r EXCEPT !.thrown = NoError]

RECURSIVE NotifyEach(_, _, _)
NotifyEach(s, listeners, payload) ==
    IF listeners = <<>> THEN s
    ELSE LET r == TryInvokeListener(s, Head(listeners), payload)
         IN  IF r.thrown # NoError THEN r
             ELSE NotifyEach(r, Tail(listeners), payload)

notifySubscribers(s, t) ==
    LET payload == [revision |-> s.state.revision,
                    season |-> s.state.season,
                    updatedAt |-> t]
    IN  NotifyEach(s, s.subscribers, payload)

\* An ensureActiveSeason that resets the season and leaves the persist out.
ensureActiveSeasonNoPersist(s, t) ==
    LET latestSeason == computeKstSeasonWindow(t)
    IN  IF s.state.season.id = latestSeason.id
        THEN [store |-> s, value |-> FALSE]
        ELSE LET s1 == [s EXCEPT !.state =
                           [revision |-> s.state.revision + 1,
                            updatedAt |-> t,
                            season |-> latestSeason,
                            players |-> <<>>]]
                 s2 == invalidateRankingCache(s1)
                 s4 == notifySubscribers(s2, t)
             IN  [store |-> s4, value |-> TRUE]

\* An ensureActiveSeason that compares the season objects themselves
\* (this.state.season === latestSeason), which are never the same object.
ensureActiveSeasonByObject(s, t) ==
    LET latestSeason == computeKstSeasonWindow(t)
        s1 == [s EXCEPT !.state =
                  [revision |-> s.state.revision + 1,
                   updatedAt |-> t,
                   season |-> latestSeason,
                   players |-> <<>>]]
        s2 == invalidateRankingCache(s1)
        s3 == schedulePersist(s2, t)
        s4 == notifySubscribers(s3, t)
    IN  [store |-> s4, value |-> TRUE]

ensureActiveSeason(s, t) ==
    LET latestSeason == computeKstSeasonWindow(t)
    IN  IF s.state.season.id = latestSeason.id
        THEN [store |-> s, value |-> FALSE]
        ELSE LET s1 == [s EXCEPT !.state =
                           [revision |-> s.state.revision + 1,
                            updatedAt |-> t,
                            season |-> latestSeason,
                            players |-> <<>>]]
                 s2 == invalidateRankingCache(s1)
                 s3 == schedulePersist(s2, t)
                 s4 == notifySubscribers(s3, t)
             IN  [store |-> s4, value |-> TRUE]

\* A merge that stores each submitted score as it comes, greater or not.
RECURSIVE MergeScoresOverwrite(_, _)
MergeScoresOverwrite(acc, entries) ==
    IF entries = <<>> THEN acc
    ELSE LET gameId == sanitizeId(Head(entries)[1], <<>>)
             score == toSafeScore(Head(entries)[2])
             previous == ScoreOf(acc.scores, gameId)
         IN  IF gameId = <<>> \/ score <= 0 THEN MergeScoresOverwrite(acc, Tail(entries))
             ELSE IF score # previous
             THEN MergeScoresOverwrite(
                    [scores |-> [g \in DOMAIN acc.scores \cup {gameId} |->
                                    IF g = gameId THEN score ELSE acc.scores[g]],
                     changed |-> TRUE],
                    Tail(entries))
             ELSE MergeScoresOverwrite(acc, Tail(entries))

\* A merge that gives up the rest of the request at its first invalid entry.
RECURSIVE MergeScoresUntilInvalid(_, _)
MergeScoresUntilInvalid(acc, entries) ==
    IF entries = <<>> THEN acc
    ELSE LET gameId == sanitizeId(Head(entries)[1], <<>>)
             score == toSafeScore(Head(entries)[2])
             previous == ScoreOf(acc.scores, gameId)
         IN  IF gameId = <<>> \/ score <= 0 THEN acc
             ELSE IF score > previous
             THEN MergeScoresUntilInvalid(
                    [scores |-> [g \in DOMAIN acc.scores \cup {gameId} |->
                                    IF g = gameId THEN score ELSE acc.scores[g]],
                     changed |-> TRUE],
                    Tail(entries))
             ELSE MergeScoresUntilInvalid(acc, Tail(entries))

\* A merge that takes a score equal to the stored one for a new best.
RECURSIVE MergeScoresNotStrict(_, _)
MergeScoresNotStrict(acc, entries) ==
    IF entries = <<>> THEN acc
    ELSE LET gameId == sanitizeId(Head(entries)[1], <<>>)
             score == toSafeScore(Head(entries)[2])
             previous == ScoreOf(acc.scores, gameId)
         IN  IF gameId = <<>> \/ score <= 0 THEN MergeScoresNotStrict(acc, Tail(entries))
             ELSE IF score >= previous
             THEN MergeScoresNotStrict(
                    [scores |-> [g \in DOMAIN acc.scores \cup {gameId} |->
                                    IF g = gameId THEN score ELSE acc.scores[g]],
                     changed |-> TRUE],
                    Tail(entries))
             ELSE MergeScoresNotStrict(acc, Tail(entries))

\* One pass of the Object.entries(sourceGameScores).forEach callback over the
\* entries left, from the scores and the change flag reached so far.
RECURSIVE MergeScores(_, _)
MergeScores(acc, entries) ==
    IF entries = <<>> THEN acc
    ELSE LET gameId == sanitizeId(Head(entries)[1], <<>>)
             score == toSafeScore(Head(entries)[2])
             previous == ScoreOf(acc.scores, gameId)
         IN  IF gameId = <<>> \/ score <= 0 THEN MergeScores(acc, Tail(entries))
             ELSE IF score > previous
             THEN MergeScores(
                    [scores |-> [g \in DOMAIN acc.scores \cup {gameId} |->
                                    IF g = gameId THEN score ELSE acc.scores[g]],
                     changed |-> TRUE],
                    Tail(entries))
             ELSE MergeScores(acc, Tail(entries))

\* An overall score summed over the scores the player had before the merge.
StaleOverallScore(existing, nextGameScores) == SumScores(existing.gameScores)

\* const overallScore = Object.values(nextGameScores).reduce(...)
NextOverallScore(existing, nextGameScores) == SumScores(nextGameScores)

\* A change that leaves the revision as it is.
CommitChangeNoRevision(s, t) ==
    LET s2 == [s EXCEPT !.state.updatedAt = t]
        s3 == invalidateRankingCache(s2)
        s4 == schedulePersist(s3, t)
    IN  notifySubscribers(s4, t)

\* A change that tells the listeners before it bumps the revision.
CommitChangeNotifyFirst(s, t) ==
    LET s2 == notifySubscribers(s, t)
        s3 == [s2 EXCEPT !.state.revision = @ + 1, !.state.updatedAt = t]
        s4 == invalidateRankingCache(s3)
    IN  schedulePersist(s4, t)

\* The body of if (hasMeaningfulChange) { ... } in syncPlayer.
CommitChange(s, t) ==
    LET s2 == [s EXCEPT !.state.revision = @ + 1, !.state.updatedAt = t]
        s3 == invalidateRankingCache(s2)
        s4 == schedulePersist(s3, t)
    IN  notifySubscribers(s4, t)

\* A request's gameScores: an object, as the sequence of its [key, value]
\* entries, or a value that is no object.
Obj(entries) == [kind |-> "object", entries |-> entries]
NotAnObject == [kind |-> "undefined", entries |-> <<>>]

\* syncPlayer from const safeNickname on, for the uid the request sanitized to.
MergePlayer(s, t, req, uid) ==
    LET safeNickname == sanitizeString(req.nickname, DefaultNickname, 32)
        safeAvatar == sanitizeString(req.avatar, DefaultAvatar, 32)
        sourceGameScores == IF req.gameScores.kind = "object"
                            THEN req.gameScores.entries ELSE <<>>
        i == PlayerIndex(s.state.players, uid)
        existing == IF i # 0 THEN s.state.players[i]
                    ELSE [uid |-> uid, nickname |-> safeNickname,
                          avatar |-> safeAvatar, updatedAt |-> t,
                          gameScores |-> EmptyMap, overallScore |-> 0]
        merged == MergeScores([scores |-> existing.gameScores, changed |-> FALSE],
                              sourceGameScores)
        nextGameScores == merged.scores
        overallScore == NextOverallScore(existing, nextGameScores)
        hasMeaningfulChange ==
            \/ merged.changed
            \/ existing.nickname # safeNickname \/ existing.avatar # safeAvatar
            \/ overallScore # existing.overallScore
        s1 == [s EXCEPT !.state.players =
                  PutPlayer(@, [uid |-> uid, nickname |-> safeNickname,
                                avatar |-> safeAvatar, updatedAt |-> t,
                                gameScores |-> nextGameScores,
                                overallScore |-> overallScore])]
        done == IF hasMeaningfulChange THEN CommitChange(s1, t) ELSE s1
    IN  [store |-> done,
         value |-> [playerId |-> uid,
                    overallScore |-> overallScore,
                    hasMeaningfulChange |-> hasMeaningfulChange,
                    season |-> done.state.season,
                    revision |-> done.state.revision]]

\* A syncPlayer without the if (!uid) throw.
SyncBodyUnvalidated(s, t, req) ==
    MergePlayer(s, t, req, sanitizeId(req.playerId, <<>>))

\* syncPlayer from the statement after ensureActiveSeason() on; the request is
\* [playerId, nickname, avatar, gameScores].
SyncBody(s, t, req) ==
    LET uid == sanitizeId(req.playerId, <<>>)
    IN  IF uid = <<>>
        THEN [store |-> [s EXCEPT !.thrown = InvalidPlayerId], value |-> <<>>]
        ELSE MergePlayer(s, t, req, uid)

syncPlayer(s, t, req) ==
    LET e == ensureActiveSeason(s, t)
    IN  IF e.store.thrown # NoError THEN [store |-> e.store, value |-> <<>>]
        ELSE SyncBody(e.store, t, req)

\* ------------------------------------------------------------ ranking
\* String.prototype.localeCompare(other, 'en'): the collation of the characters
\* a uid can hold.  Punctuation sorts before digits and digits before letters;
\* letters compare without case first, and a lower-case letter sorts before
\* its upper-case form when nothing else tells two strings apart.
CollationOrder ==
    <<"_", "-", ":", ".", "0", "1", "2", "3", "4", "5", "6", "7", "8", "9",
      "a", "b", "c", "d", "e", "f", "g", "h", "i", "j", "k", "l", "m",
      "n", "o", "p", "q", "r", "s", "t", "u", "v", "w", "x", "y", "z">>
LowerOf ==
    [c \in IdChars |->
        CASE c = "A" -> "a" [] c = "B" -> "b" [] c = "C" -> "c" [] c = "D" -> "d"
          [] c = "E" -> "e" [] c = "F" -> "f" [] c = "G" -> "g" [] c = "H" -> "h"
          [] c = "I" -> "i" [] c = "J" -> "j" [] c = "K" -> "k" [] c = "L" -> "l"
          [] c = "M" -> "m" [] c = "N" -> "n" [] c = "O" -> "o" [] c = "P" -> "p"
          [] c = "Q" -> "q" [] c = "R" -> "r" [] c = "S" -> "s" [] c = "T" -> "t"
          [] c = "U" -> "u" [] c = "V" -> "v" [] c = "W" -> "w" [] c = "X" -> "x"
          [] c = "Y" -> "y" [] c = "Z" -> "z" [] OTHER -> c]
PrimaryWeight(c) ==
    CHOOSE i \in 1..Len(CollationOrder) : CollationOrder[i] = LowerOf[c]
CaseWeight(c) == IF LowerOf[c] = c THEN 0 ELSE 1

\* Lexicographic comparison of two sequences of weights: negative, zero or
\* positive.
RECURSIVE CompareWeights(_, _)
CompareWeights(a, b) ==
    IF a = <<>> /\ b = <<>> THEN 0
    ELSE IF a = <<>> THEN -1
    ELSE IF b = <<>> THEN 1
    ELSE IF Head(a) # Head(b) THEN Head(a) - Head(b)
    ELSE CompareWeights(Tail(a), Tail(b))

localeCompare(a, b) ==
    LET primary == CompareWeights([i \in 1..Len(a) |-> PrimaryWeight(a[i])],
                                  [i \in 1..Len(b) |-> PrimaryWeight(b[i])])
    IN  IF primary # 0 THEN primary
        ELSE CompareWeights([i \in 1..Len(a) |-> CaseWeight(a[i])],
                            [i \in 1..Len(b) |-> CaseWeight(b[i])])

\* A comparison that ends at updatedAt and leaves equal entries unordered.
compareEntryNoTieBreak(a, b) ==
    IF b.score # a.score THEN b.score - a.score
    ELSE a.updatedAt - b.updatedAt

compareEntry(a, b) ==
    IF b.score # a.score THEN b.score - a.score
    ELSE IF a.updatedAt # b.updatedAt THEN a.updatedAt - b.updatedAt
    ELSE localeCompare(a.uid, b.uid)

\* Array.prototype.sort((a, b) => this.compareEntry(a, b)): a stable sort, as an
\* insertion of each element behind those that do not compare after it.
RECURSIVE InsertEntry(_, _)
InsertEntry(sorted, e) ==
    IF sorted = <<>> THEN <<e>>
    ELSE IF compareEntry(e, Head(sorted)) < 0 THEN <<e>> \o sorted
    ELSE <<Head(sorted)>> \o InsertEntry(Tail(sorted), e)

RECURSIVE SortEntries(_)
SortEntries(entries) ==
    IF entries = <<>> THEN <<>>
    ELSE InsertEntry(SortEntries(SubSeq(entries, 1, Len(entries) - 1)),
                     entries[Len(entries)])

\* .map((entry, index) => ({ rank: index + 1, uid, nickname, avatar, score }))
Ranked(sorted) ==
    [i \in 1..Len(sorted) |->
        [rank |-> i, uid |-> sorted[i].uid, nickname |-> sorted[i].nickname,
         avatar |-> sorted[i].avatar, score |-> sorted[i].score]]

\* A ranking without the filter on entry.score > 0.
RankEntriesUnfiltered(players, scores, t) ==
    Ranked(SortEntries(
        [i \in 1..Len(players) |->
            [uid |-> players[i].uid, nickname |-> players[i].nickname,
             avatar |-> players[i].avatar, score |-> scores[i],
             updatedAt |-> toSafeTimestamp(Num(players[i].updatedAt), t)]]))

\* The entries of a ranking of the players, scores[i] being the score read for
\* players[i].
RankEntries(players, scores, t) ==
    LET mapped == [i \in 1..Len(players) |->
                      [uid |-> players[i].uid, nickname |-> players[i].nickname,
                       avatar |-> players[i].avatar,
                       score |-> scores[i],
                       updatedAt |-> toSafeTimestamp(Num(players[i].updatedAt), t)]]
        kept == SelectSeq(mapped, LAMBDA entry : entry.score > 0)
    IN  Ranked(SortEntries(kept))

OverallScoreOf(player) == toSafeScore(Num(player.overallScore))

\* A cache is { revision, entries, rankByPlayer }; rankByPlayer is the Map of
\* the entries by uid, read through RankByPlayerGet.
RankByPlayerGet(cache, uid) ==
    SelectSeq(cache.entries, LAMBDA entry : entry.uid = uid)

OverallScores(players) == [i \in 1..Len(players) |-> OverallScoreOf(players[i])]

\* A buildOverallCache that counts a rebuild as a change of the state.
buildOverallCacheBumping(s, t) ==
    IF s.overallCache # <<>> /\ s.overallCache[1].revision = s.state.revision
    THEN s
    ELSE [s EXCEPT !.state.revision = @ + 1,
                   !.overallCache =
            <<[revision |-> s.state.revision + 1,
               entries |-> RankEntries(s.state.players, OverallScores(s.state.players), t)]>>,
            !.builds = @ + 1]

buildOverallCache(s, t) ==
    IF s.overallCache # <<>> /\ s.overallCache[1].revision = s.state.revision
    THEN s
    ELSE [s EXCEPT !.overallCache =
            <<[revision |-> s.state.revision,
               entries |-> RankEntries(s.state.players, OverallScores(s.state.players), t)]>>,
            !.builds = @ + 1]

\* A buildGameCache that never returns the cached ranking.
buildGameCacheAlways(s, gameId, t) ==
    LET normalizedGameId == sanitizeId(gameId, <<>>)
        scores == [i \in 1..Len(s.state.players) |->
                      ScoreOf(s.state.players[i].gameScores, normalizedGameId)]
        next == [revision |-> s.state.revision,
                 entries |-> RankEntries(s.state.players, scores, t)]
    IN  IF normalizedGameId = <<>> THEN s
        ELSE [s EXCEPT !.gameCacheMap =
                 [g \in DOMAIN s.gameCacheMap \cup {normalizedGameId} |->
                     IF g = normalizedGameId THEN next ELSE s.gameCacheMap[g]],
                 !.builds = @ + 1]

\* A game ranking that reads the player's overall score.
OverallAsGameScore(player, normalizedGameId) == OverallScoreOf(player)

\* toSafeScore(player?.gameScores?.[normalizedGameId])
GameScoreOf(player, normalizedGameId) == ScoreOf(player.gameScores, normalizedGameId)

buildGameCache(s, gameId, t) ==
    LET normalizedGameId == sanitizeId(gameId, <<>>)
        scores == [i \in 1..Len(s.state.players) |->
                      GameScoreOf(s.state.players[i], normalizedGameId)]
        next == [revision |-> s.state.revision,
                 entries |-> RankEntries(s.state.players, scores, t)]
    IN  IF normalizedGameId = <<>> THEN s
        ELSE IF /\ normalizedGameId \in DOMAIN s.gameCacheMap
                /\ s.gameCacheMap[normalizedGameId].revision = s.state.revision
        THEN s
        ELSE [s EXCEPT !.gameCacheMap =
                 [g \in DOMAIN s.gameCacheMap \cup {normalizedGameId} |->
                     IF g = normalizedGameId THEN next ELSE s.gameCacheMap[g]],
                 !.builds = @ + 1]

\* What buildGameCache(gameId) returns, read after the call.
GameCacheOf(s, gameId) ==
    LET normalizedGameId == sanitizeId(gameId, <<>>)
    IN  IF normalizedGameId = <<>>
        THEN [revision |-> s.state.revision, entries |-> <<>>]
        ELSE s.gameCacheMap[normalizedGameId]

\* Array.from(new Set(ids)): the first occurrence of each id, in order.
RECURSIVE Unique(_)
Unique(ids) ==
    IF ids = <<>> THEN <<>>
    ELSE LET rest == Unique(SubSeq(ids, 1, Len(ids) - 1))
             last == ids[Len(ids)]
         IN  IF \E i \in 1..Len(rest) : rest[i] = last THEN rest ELSE Append(rest, last)

RECURSIVE BuildGameCaches(_, _, _)
BuildGameCaches(s, ids, t) ==
    IF ids = <<>> THEN s
    ELSE BuildGameCaches(buildGameCache(s, Str(Head(ids)), t), Tail(ids), t)

\* A getSnapshot that looks the player up in the top slice only.
getSnapshotMyFromTop(s, t, query) ==
    LET e == ensureActiveSeason(s, t)
        limit == clampTopLimit(query.topLimit)
        safePlayerId == sanitizeId(query.playerId, <<>>)
        s1 == buildOverallCache(e.store, t)
        overall == s1.overallCache[1]
        My(cache) == IF safePlayerId # <<>>
                     THEN Slice(RankByPlayerGet([cache EXCEPT !.entries = Slice(@, limit)],
                                                 safePlayerId), 1)
                     ELSE <<>>
        sanitized == [i \in 1..Len(query.gameIds) |->
                         sanitizeId(Str(query.gameIds[i]), <<>>)]
        normalizedGameIds == Unique(SelectSeq(sanitized, LAMBDA id : id # <<>>))
        s2 == BuildGameCaches(s1, normalizedGameIds, t)
        gameIdSet == {normalizedGameIds[i] : i \in 1..Len(normalizedGameIds)}
    IN  IF e.store.thrown # NoError THEN [store |-> e.store, value |-> <<>>]
        ELSE [store |-> s2,
              value |-> [season |-> s2.state.season,
                         revision |-> s2.state.revision,
                         generatedAt |-> t,
                         overallTop |-> Slice(overall.entries, limit),
                         myOverall |-> My(overall),
                         games |-> [g \in gameIdSet |->
                                      [top |-> Slice(GameCacheOf(s2, Str(g)).entries, limit),
                                       my |-> My(GameCacheOf(s2, Str(g)))]]]]

\* The query is [gameIds, playerId, topLimit]; gameIds is the array of strings
\* parseGameIds gives.
getSnapshot(s, t, query) ==
    LET e == ensureActiveSeason(s, t)
        limit == clampTopLimit(query.topLimit)
        safePlayerId == sanitizeId(query.playerId, <<>>)
        s1 == buildOverallCache(e.store, t)
        overall == s1.overallCache[1]
        My(cache) == IF safePlayerId # <<>>
                     THEN Slice(RankByPlayerGet(cache, safePlayerId), 1)
                     ELSE <<>>
        sanitized == [i \in 1..Len(query.gameIds) |->
                         sanitizeId(Str(query.gameIds[i]), <<>>)]
        normalizedGameIds == Unique(SelectSeq(sanitized, LAMBDA id : id # <<>>))
        s2 == BuildGameCaches(s1, normalizedGameIds, t)
        gameIdSet == {normalizedGameIds[i] : i \in 1..Len(normalizedGameIds)}
    IN  IF e.store.thrown # NoError THEN [store |-> e.store, value |-> <<>>]
        ELSE [store |-> s2,
              value |-> [season |-> s2.state.season,
                         revision |-> s2.state.revision,
                         generatedAt |-> t,
                         overallTop |-> Slice(overall.entries, limit),
                         myOverall |-> My(overall),
                         games |-> [g \in gameIdSet |->
                                      [top |-> Slice(GameCacheOf(s2, Str(g)).entries, limit),
                                       my |-> My(GameCacheOf(s2, Str(g)))]]]]

\* raw.split(','): the pieces of a string between its commas.
RECURSIVE Split(_, _)
Split(chars, piece) ==
    IF chars = <<>> THEN <<piece>>
    ELSE IF Head(chars) = "," THEN <<piece>> \o Split(Tail(chars), <<>>)
    ELSE Split(Tail(chars), Append(piece, Head(chars)))

\* parseGameIds of what url.searchParams.get returns: null, or a string.
parseGameIds(raw) ==
    IF raw.kind # "string" THEN <<>>
    ELSE LET pieces == Split(raw.chars, <<>>)
             trimmed == [i \in 1..Len(pieces) |-> Trim(pieces[i])]
         IN  SelectSeq(trimmed, LAMBDA id : id # <<>>)

\* GET /api/leaderboard/snapshot: the search parameters as
\* url.searchParams.get returns them, handed to getSnapshot.
handleSnapshot(s, t, params) ==
    getSnapshot(s, t, [gameIds |-> parseGameIds(params.gameIds),
                       playerId |-> params.playerId,
                       topLimit |-> params.topLimit])

\* ------------------------------------------------------------ the store file
\* A file is missing, holds bytes JSON.parse rejects (partial: a truncated or
\* half-written file), or holds a JSON document.
NoDoc == [revision |-> JsUndefined, updatedAt |-> JsUndefined,
          season |-> [id |-> NotAString, startAt |-> JsUndefined, endAt |-> JsUndefined],
          players |-> NotAnObject]
Missing == [kind |-> "missing", doc |-> NoDoc]
Partial == [kind |-> "partial", doc |-> NoDoc]
\* A file readFile cannot read, and a path whose directory cannot be made.
Unreadable == [kind |-> "unreadable", doc |-> NoDoc]
NoDirectory == [kind |-> "nodir", doc |-> NoDoc]
Json(doc) == [kind |-> "json", doc |-> doc]

\* A raw player of a document: an object with its fields, or no object.
RawPlayer(nickname, avatar, updatedAt, gameScores) ==
    [kind |-> "object", nickname |-> nickname, avatar |-> avatar,
     updatedAt |-> updatedAt, gameScores |-> gameScores]

RECURSIVE MapEntries(_, _)
MapEntries(gameScores, keys) ==
    IF keys = {} THEN <<>>
    ELSE LET k == CHOOSE x \in keys : TRUE
         IN  <<<<Str(k), Num(gameScores[k])>>>> \o MapEntries(gameScores, keys \ {k})

\* JSON.parse(JSON.stringify(state)): the document persistNow writes.
Stringify(st) ==
    [revision |-> Num(st.revision),
     updatedAt |-> Num(st.updatedAt),
     season |-> [id |-> Str(st.season.id), startAt |-> Num(st.season.startAt),
                 endAt |-> Num(st.season.endAt)],
     players |-> Obj([i \in 1..Len(st.players) |->
                        <<Str(st.players[i].uid),
                          RawPlayer(Str(st.players[i].nickname),
                                    Str(st.players[i].avatar),
                                    Num(st.players[i].updatedAt),
                                    Obj(MapEntries(st.players[i].gameScores,
                                                   DOMAIN st.players[i].gameScores)))>>])]

\* A normalizeState that keeps every entry of a raw player's gameScores.
RECURSIVE NormalizeScoresUnguarded(_, _)
NormalizeScoresUnguarded(acc, entries) ==
    IF entries = <<>> THEN acc
    ELSE LET gameId == sanitizeId(Head(entries)[1], <<>>)
             score == toSafeScore(Head(entries)[2])
         IN  NormalizeScoresUnguarded(
                    [g \in DOMAIN acc \cup {gameId} |->
                        IF g = gameId THEN score ELSE acc[g]],
                    Tail(entries))

\* The inner forEach of normalizeState over a raw player's gameScores.
RECURSIVE NormalizeScores(_, _)
NormalizeScores(acc, entries) ==
    IF entries = <<>> THEN acc
    ELSE LET gameId == sanitizeId(Head(entries)[1], <<>>)
             score == toSafeScore(Head(entries)[2])
         IN  IF gameId = <<>> \/ score <= 0 THEN NormalizeScores(acc, Tail(entries))
             ELSE NormalizeScores(
                    [g \in DOMAIN acc \cup {gameId} |->
                        IF g = gameId THEN score ELSE acc[g]],
                    Tail(entries))

\* The outer forEach of normalizeState over the raw players.
RECURSIVE NormalizePlayers(_, _, _)
NormalizePlayers(acc, entries, t) ==
    IF entries = <<>> THEN acc
    ELSE LET uid == sanitizeId(Head(entries)[1], <<>>)
             rawPlayer == Head(entries)[2]
             sourceGameScores == IF rawPlayer.gameScores.kind = "object"
                                 THEN rawPlayer.gameScores.entries ELSE <<>>
             gameScores == NormalizeScores(EmptyMap, sourceGameScores)
         IN  IF uid = <<>> \/ rawPlayer.kind # "object"
             THEN NormalizePlayers(acc, Tail(entries), t)
             ELSE NormalizePlayers(
                    PutPlayer(acc,
                        [uid |-> uid,
                         nickname |-> sanitizeString(rawPlayer.nickname, DefaultNickname, 32),
                         avatar |-> sanitizeString(rawPlayer.avatar, DefaultAvatar, 32),
                         updatedAt |-> toSafeTimestamp(rawPlayer.updatedAt, t),
                         gameScores |-> gameScores,
                         overallScore |-> SumScores(gameScores)]),
                    Tail(entries), t)

\* Math.max(1, Math.floor(Number(raw?.revision || 1))), for a revision that is
\* absent or a finite number (a document whose revision is no number is outside
\* the model).
NormalizeRevision(rawRevision) ==
    LET parsed == ToNumber(rawRevision)
        falsy == rawRevision.kind \in {"null", "undefined"}
                    \/ (parsed.finite /\ parsed.num = 0)
    IN  CASE falsy -> 1
          [] ~falsy /\ parsed.finite -> Max(1, Floor(parsed.num, parsed.den))

normalizeState(raw, t) ==
    LET fallback == createEmptyState(t)
        sourcePlayers == IF raw.players.kind = "object" THEN raw.players.entries ELSE <<>>
    IN  [revision |-> NormalizeRevision(raw.revision),
         updatedAt |-> toSafeTimestamp(raw.updatedAt, fallback.updatedAt),
         season |-> [id |-> sanitizeString(raw.season.id, fallback.season.id, 64),
                     startAt |-> toSafeTimestamp(raw.season.startAt, fallback.season.startAt),
                     endAt |-> toSafeTimestamp(raw.season.endAt, fallback.season.endAt)],
         players |-> NormalizePlayers(<<>>, sourcePlayers, t)]

\* The rejection of mkdir(path.dirname(filePath), {recursive: true}).
MkdirError == [message |-> "mkdir-failed", statusCode |-> 0]

\* load(): mkdir outside the try, then the file as readFile and JSON.parse
\* find it.
load(s, t, file) ==
    LET loaded == IF file.kind = "json" THEN normalizeState(file.doc, t)
                  ELSE createEmptyState(t)
        e == ensureActiveSeason([s EXCEPT !.state = loaded], t)
    IN  IF file.kind = "nodir" THEN [s EXCEPT !.thrown = MkdirError]
        ELSE IF e.store.thrown # NoError THEN e.store
        ELSE invalidateRankingCache(e.store)

\* ------------------------------------------------------------ state
VARIABLES
    now,            \* Date.now()
    phase,          \* "constructed" (before load), "serving" or "exited"
    state,          \* store.state
    persistTimer,   \* store.persistTimer: <<>> (null) or <<the timer's due time>>
    overallCache,   \* store.overallCache: <<>> (null) or <<cache>>
    gameCacheMap,   \* store.gameCacheMap
    subscribers,    \* store.subscribers, in insertion order
    timers,         \* the due times of the timeouts set and not yet run
    inflight,       \* the persistNow calls that have not settled
    tempFile,       \* the file at filePath + ".tmp"
    dataFile,       \* the file at filePath
    ret,            \* the last call: its name, its argument (for ensureActiveSeason:
                    \* whether the call before it was an ensureActiveSeason that
                    \* reset the season), what it threw, what it returned
    notified,       \* the listener calls made during the last call, in order
    submitted,      \* per <<uid, gameId>>: the greatest score synced this season
    windows,        \* revision-changing calls that found no timer pending
    persistCalls,   \* persistNow calls made by timer callbacks
    mutInWindow,    \* revision bumps since the pending timer was set
    attained,       \* per <<uid, ranking>>: when the player reached the score it
                    \* holds in that ranking (a game id, or <<>> for the overall);
                    \* NotKept in the runs that keep no such history
    sseClients,     \* the Set sseClients: the responses of the open event streams
    conns,          \* per connection: "idle", "open", "ended" (client.end() was
                    \* called) or "closed" (its close event has been handled)
    frames,         \* per connection: the frames the server wrote to it, in order
    heartbeat,      \* heartbeatTimer: <<>> (cleared) or <<its next due time>>
    finalDone       \* the persists gracefulShutdown started that have settled

storeVars == <<state, persistTimer, overallCache, gameCacheMap, subscribers, timers>>
diskVars == <<inflight, tempFile, dataFile>>
histVars == <<submitted, windows, persistCalls, mutInWindow, attained>>
serverVars == <<sseClients, conns, heartbeat, finalDone>>
vars == <<now, phase, storeVars, diskVars, ret, notified, histVars, serverVars, frames>>

\* The connections a run can open.
Conns == {"c1", "c2"}

\* The store's subscriber of the server: one update frame per payload, written
\* to every client of sseClients.
UpdateFrames(calls) ==
    LET sse == SelectSeq(calls, LAMBDA call : call.listener = "sse")
    IN  [i \in 1..Len(sse) |-> [event |-> "update", revision |-> sse[i].revision]]

WriteAll(written, clients, new) ==
    [c \in DOMAIN written |-> IF c \in clients THEN written[c] \o new ELSE written[c]]

\* The store object as a call finds it.
Store ==
    [state |-> state, persistTimer |-> persistTimer, overallCache |-> overallCache,
     gameCacheMap |-> gameCacheMap, subscribers |-> subscribers, timers |-> timers,
     notified |-> <<>>, builds |-> 0, thrown |-> NoError]

\* The score a player's record holds in a ranking: the overall one is <<>>.
RankingScore(player, ranking) ==
    IF ranking = <<>> THEN player.overallScore
    ELSE IF ranking \in DOMAIN player.gameScores THEN player.gameScores[ranking]
    ELSE 0

\* No history of the scores' times is kept.
NotKept == [k \in {<<>>} |-> 0]

\* When each stored player reached each score it holds: the time it had
\* reached it by, while the season and the score stay; else the time of the
\* record that first holds the score.
Attained(old, before, after) ==
    IF old = NotKept THEN NotKept ELSE
    LET keys == UNION {{<<after.players[i].uid, g>> :
                           g \in DOMAIN after.players[i].gameScores \cup {<<>>}} :
                       i \in 1..Len(after.players)}
    IN  [k \in keys |->
            LET a == after.players[PlayerIndex(after.players, k[1])]
                i == PlayerIndex(before.players, k[1])
            IN  IF /\ before.season.id = after.season.id
                   /\ k \in DOMAIN old
                   /\ i # 0
                   /\ RankingScore(before.players[i], k[2]) = RankingScore(a, k[2])
                THEN old[k] ELSE a.updatedAt]

\* The store object as a call leaves it, and what the call is seen to have done.
Commit(op, arg, r) ==
    /\ attained' = Attained(attained, state, r.store.state)
    /\ state' = r.store.state
    /\ persistTimer' = r.store.persistTimer
    /\ overallCache' = r.store.overallCache
    /\ gameCacheMap' = r.store.gameCacheMap
    /\ subscribers' = r.store.subscribers
    /\ timers' = r.store.timers
    /\ notified' = r.store.notified
    /\ frames' = WriteAll(frames, sseClients, UpdateFrames(r.store.notified))
    /\ ret' = [op |-> op, arg |-> arg, thrown |-> r.store.thrown,
               value |-> IF r.store.thrown # NoError THEN <<>> ELSE <<r.value>>,
               builds |-> r.store.builds]

Quiet(op) ==
    /\ notified' = <<>>
    /\ ret' = [op |-> op, arg |-> <<>>, thrown |-> NoError, value |-> <<>>,
               builds |-> 0]

\* The debounce windows, counted from the revision and the timer a call found.
CountWindows ==
    /\ windows' = IF state'.revision # state.revision /\ persistTimer = <<>>
                  THEN windows + 1 ELSE windows
    /\ mutInWindow' = (IF persistTimer = <<>> THEN 0 ELSE mutInWindow)
                        + (state'.revision - state.revision)

StartTime == 4 * DAY_MS + WEEK_MS - TickMs
EndTime == StartTime + MaxTicks * TickMs

RemoveAt(seq, i) == SubSeq(seq, 1, i - 1) \o SubSeq(seq, i + 1, Len(seq))

\* ------------------------------------------------------------ actions
Tick ==
    /\ phase = "serving"
    /\ now + TickMs <= EndTime
    /\ now' = now + TickMs
    /\ Quiet("tick")
    /\ UNCHANGED <<phase, storeVars, diskVars, histVars, serverVars, frames>>

\* The scores the players hold, per <<uid, gameId>>.
StoredScores(players) ==
    [k \in UNION {{<<players[i].uid, g>> : g \in DOMAIN players[i].gameScores} :
                    i \in 1..Len(players)} |->
        players[PlayerIndex(players, k[1])].gameScores[k[2]]]

\* await store.load(), at startup: a rejection ends the process.
Load ==
    /\ phase = "constructed"
    /\ \E r \in {[store |-> load(Store, now, dataFile), value |-> TRUE]} :
          /\ phase' = IF r.store.thrown # NoError THEN "exited" ELSE "serving"
          /\ Commit("load", <<>>, r)
          /\ submitted' = StoredScores(r.store.state.players)
    /\ CountWindows
    /\ UNCHANGED <<now, diskVars, persistCalls, serverVars>>

\* The scores a request submits: per sanitized game id, the greatest positive
\* sanitized score among its entries.
Submits(uid, entries) ==
    LET gids == {sanitizeId(entries[i][1], <<>>) : i \in 1..Len(entries)} \ {<<>>}
        Best(g) == LET S == {toSafeScore(entries[i][2]) :
                               i \in {j \in 1..Len(entries) :
                                        sanitizeId(entries[j][1], <<>>) = g}}
                   IN  CHOOSE m \in S : \A x \in S : x <= m
    IN  [k \in {<<uid, g>> : g \in {h \in gids : Best(h) > 0}} |-> Best(k[2])]

MergeSubmitted(old, new) ==
    [k \in DOMAIN old \cup DOMAIN new |->
        IF k \notin DOMAIN new THEN old[k]
        ELSE IF k \notin DOMAIN old THEN new[k]
        ELSE Max(old[k], new[k])]

\* A syncPlayer that starts persistNow itself when it has changed the state.
SyncPlayerPersisting(req) ==
    \E r \in {syncPlayer(Store, now, req)} :
    LET uid == sanitizeId(req.playerId, <<>>)
        rolled == computeKstSeasonWindow(now).id # state.season.id
        entries == IF req.gameScores.kind = "object" THEN req.gameScores.entries ELSE <<>>
    IN  /\ phase = "serving"
        /\ r.store.state.revision <= MaxRevision
        /\ Commit("syncPlayer", <<req>>, r)
        /\ submitted' = MergeSubmitted(IF rolled THEN EmptyMap ELSE submitted,
                                       IF uid = <<>> THEN EmptyMap
                                       ELSE Submits(uid, entries))
        /\ CountWindows
        /\ inflight' = IF r.store.state.revision # state.revision
                       THEN Append(inflight, [data |-> Stringify(r.store.state), pc |-> "open",
                                              target |-> "none", clean |-> TRUE,
                                              final |-> FALSE])
                       ELSE inflight
        /\ UNCHANGED <<now, phase, tempFile, dataFile, persistCalls, serverVars>>

SyncPlayer(req) ==
    \E r \in {syncPlayer(Store, now, req)} :
    LET uid == sanitizeId(req.playerId, <<>>)
        rolled == computeKstSeasonWindow(now).id # state.season.id
        entries == IF req.gameScores.kind = "object" THEN req.gameScores.entries ELSE <<>>
    IN  /\ phase = "serving"
        /\ r.store.state.revision <= MaxRevision
        /\ Commit("syncPlayer", <<req>>, r)
        /\ submitted' = MergeSubmitted(IF rolled THEN EmptyMap ELSE submitted,
                                       IF uid = <<>> THEN EmptyMap
                                       ELSE Submits(uid, entries))
        /\ CountWindows
        /\ UNCHANGED <<now, phase, diskVars, persistCalls, serverVars>>

GetSnapshot(query) ==
    \E r \in {getSnapshot(Store, now, query)} :
    LET rolled == computeKstSeasonWindow(now).id # state.season.id
    IN  /\ phase = "serving"
        /\ r.store.state.revision <= MaxRevision
        /\ Commit("getSnapshot", <<query>>, r)
        /\ submitted' = IF rolled THEN EmptyMap ELSE submitted
        /\ CountWindows
        /\ UNCHANGED <<now, phase, diskVars, persistCalls, serverVars>>

EnsureActiveSeason ==
    \E r \in {ensureActiveSeason(Store, now)} :
    LET rolled == computeKstSeasonWindow(now).id # state.season.id
    IN  /\ phase = "serving"
        /\ r.store.state.revision <= MaxRevision
        /\ Commit("ensureActiveSeason",
                  <<ret.op = "ensureActiveSeason" /\ ret.value = <<TRUE>>>>, r)
        /\ submitted' = IF rolled THEN EmptyMap ELSE submitted
        /\ CountWindows
        /\ UNCHANGED <<now, phase, diskVars, persistCalls, serverVars>>

\* store.subscribe(listener)
Subscribe(l) ==
    /\ phase = "serving"
    /\ subscribers' = IF \E i \in 1..Len(subscribers) : subscribers[i] = l
                      THEN subscribers ELSE Append(subscribers, l)
    /\ Quiet("subscribe")
    /\ UNCHANGED <<now, phase, state, persistTimer, overallCache, gameCacheMap,
                   timers, diskVars, histVars, serverVars, frames>>

\* the function subscribe returned: this.subscribers.delete(listener)
Unsubscribe(l) ==
    /\ phase = "serving"
    /\ \E i \in 1..Len(subscribers) : subscribers[i] = l
    /\ subscribers' = SelectSeq(subscribers, LAMBDA x : x # l)
    /\ Quiet("unsubscribe")
    /\ UNCHANGED <<now, phase, state, persistTimer, overallCache, gameCacheMap,
                   timers, diskVars, histVars, serverVars, frames>>

\* ------------------------------------------------------------ persistence
\* Persists in flight at once in a run.
MaxInflight == 2

\* A persistNow call in flight: the text it serialized when it was called, the
\* step it waits for (writeFile opening the temp file, writeFile finishing,
\* rename), where the file it opened now is (temp path, real path, unlinked),
\* whether it alone has written to that file since it opened it, and whether
\* gracefulShutdown started it (final).
NewPersist(st) ==
    [data |-> Stringify(st), pc |-> "open", target |-> "none", clean |-> TRUE,
     final |-> FALSE]

\* .catch(...).finally(...) of the persist gracefulShutdown started: it has
\* settled, fulfilled (ok) or rejected.
Settled(done, persist, ok) ==
    IF persist.final THEN Append(done, [data |-> persist.data, ok |-> ok]) ELSE done

\* persistNow() up to its first await
persistNow(st, running) == Append(running, NewPersist(st))

\* The callback schedulePersist gave setTimeout, run for the i-th timer.
TimerFire(i) ==
    /\ phase = "serving"
    /\ i \in 1..Len(timers)
    /\ timers[i] <= now
    /\ Len(inflight) < MaxInflight
    /\ timers' = RemoveAt(timers, i)
    /\ persistTimer' = <<>>
    /\ inflight' = persistNow(state, inflight)
    /\ persistCalls' = persistCalls + 1
    /\ Quiet("timer")
    /\ UNCHANGED <<now, phase, state, overallCache, gameCacheMap, subscribers,
                   tempFile, dataFile, submitted, windows, mutInWindow, attained,
                   serverVars, frames>>

\* writeFile(tempFile, ...) opens the temp path for writing: the file there is
\* created or truncated, under every writer that still has it open; writers of
\* different texts into one file may leave a mix of the two.
FsOpen(i) ==
    LET others == {j \in 1..Len(inflight) :
                     /\ j # i /\ inflight[j].pc = "write" /\ inflight[j].target = "temp"
                     /\ inflight[j].data # inflight[i].data}
    IN  /\ phase # "exited"
        /\ i \in 1..Len(inflight)
        /\ inflight[i].pc = "open"
        /\ tempFile' = Partial
        /\ inflight' = [j \in 1..Len(inflight) |->
                          IF j = i
                          THEN [inflight[j] EXCEPT !.pc = "write", !.target = "temp",
                                                   !.clean = (others = {})]
                          ELSE IF j \in others THEN [inflight[j] EXCEPT !.clean = FALSE]
                          ELSE inflight[j]]
        /\ Quiet("fs")
        /\ UNCHANGED <<now, phase, storeVars, dataFile, histVars, serverVars, frames>>

\* writeFile finishes: the file it opened holds the text, unless another writer
\* wrote into the same file meanwhile, and then it may hold a mix.
FsWrite(i) ==
    /\ phase # "exited"
    /\ i \in 1..Len(inflight)
    /\ inflight[i].pc = "write"
    /\ \E content \in {Json(inflight[i].data)}
                        \cup (IF inflight[i].clean THEN {} ELSE {Partial}) :
          /\ tempFile' = IF inflight[i].target = "temp" THEN content ELSE tempFile
          /\ dataFile' = IF inflight[i].target = "real" THEN content ELSE dataFile
    /\ inflight' = [inflight EXCEPT ![i].pc = "rename"]
    /\ Quiet("fs")
    /\ UNCHANGED <<now, phase, storeVars, histVars, serverVars, frames>>

\* rename(tempFile, this.filePath): the file at the temp path, with whoever
\* still writes to it, moves to the real path; with no file at the temp path
\* rename fails and the persist ends in the catch of its caller.
FsRename(i) ==
    /\ phase # "exited"
    /\ i \in 1..Len(inflight)
    /\ inflight[i].pc = "rename"
    /\ IF tempFile.kind = "missing"
       THEN /\ inflight' = RemoveAt(inflight, i)
            /\ UNCHANGED <<tempFile, dataFile>>
       ELSE /\ dataFile' = tempFile
            /\ tempFile' = Missing
            /\ inflight' = RemoveAt(
                   [j \in 1..Len(inflight) |->
                      IF inflight[j].target = "temp"
                      THEN [inflight[j] EXCEPT !.target = "real"]
                      ELSE IF inflight[j].target = "real"
                      THEN [inflight[j] EXCEPT !.target = "unlinked"]
                      ELSE inflight[j]], i)
    /\ finalDone' = Settled(finalDone, inflight[i], tempFile.kind # "missing")
    /\ Quiet("fs")
    /\ UNCHANGED <<now, phase, storeVars, histVars, sseClients, conns, heartbeat, frames>>

\* A catch that schedules the persist again when it has failed.
FsFailRetry(i) ==
    /\ phase # "exited"
    /\ i \in 1..Len(inflight)
    /\ inflight' = RemoveAt(inflight, i)
    /\ finalDone' = Settled(finalDone, inflight[i], FALSE)
    /\ persistTimer' = IF persistTimer # <<>> THEN persistTimer
                       ELSE <<now + SAVE_DEBOUNCE_MS>>
    /\ timers' = IF persistTimer # <<>> THEN timers
                 ELSE Append(timers, now + SAVE_DEBOUNCE_MS)
    /\ Quiet("fsfail")
    /\ UNCHANGED <<now, phase, state, overallCache, gameCacheMap, subscribers,
                   tempFile, dataFile, histVars,
                   sseClients, conns, heartbeat, frames>>

\* writeFile or rename rejects (disk full, permission): the persist ends in the
\* catch of its caller, which logs; the files stay as they are.
FsFail(i) ==
    /\ phase # "exited"
    /\ i \in 1..Len(inflight)
    /\ inflight' = RemoveAt(inflight, i)
    /\ finalDone' = Settled(finalDone, inflight[i], FALSE)
    /\ Quiet("fsfail")
    /\ UNCHANGED <<now, phase, storeVars, tempFile, dataFile, histVars,
                   sseClients, conns, heartbeat, frames>>

\* ------------------------------------------------------------ the server
\* A request body: the lengths of the chunks it arrives in and what its text,
\* trimmed, is: empty, text JSON.parse rejects, or the JSON text of a payload.
Body(chunks, text, payload) == [chunks |-> chunks, text |-> text, payload |-> payload]

\* received after the chunks up to the k-th
RECURSIVE Received(_, _)
Received(chunks, k) == IF k = 0 THEN 0 ELSE Received(chunks, k - 1) + chunks[k]

\* {}: every field the sync route reads of it is undefined
EmptyPayload ==
    [playerId |-> NotAString, nickname |-> NotAString, avatar |-> NotAString,
     gameScores |-> NotAnObject]

\* A readJsonBody that takes a body JSON.parse rejects for an empty object.
readJsonBodyLenient(body) ==
    IF \E k \in 1..Len(body.chunks) : Received(body.chunks, k) > MAX_BODY_SIZE
    THEN [thrown |-> BodyTooLarge, value |-> EmptyPayload]
    ELSE IF body.text = "json" THEN [thrown |-> NoError, value |-> body.payload]
    ELSE [thrown |-> NoError, value |-> EmptyPayload]

readJsonBody(body) ==
    IF \E k \in 1..Len(body.chunks) : Received(body.chunks, k) > MAX_BODY_SIZE
    THEN [thrown |-> BodyTooLarge, value |-> EmptyPayload]
    ELSE IF body.text = "empty" THEN [thrown |-> NoError, value |-> EmptyPayload]
    ELSE IF body.text = "json" THEN [thrown |-> NoError, value |-> body.payload]
    ELSE [thrown |-> InvalidJson, value |-> EmptyPayload]

\* The catch of the request listener: Number(error?.statusCode) || 500 and the
\* error's message, sent as the response; synced tells whether store.syncPlayer
\* was called for the request.
ErrorResponse(error, synced) ==
    [status |-> IF error.statusCode # 0 THEN error.statusCode ELSE 500,
     error |-> error.message, synced |-> synced, revision |-> 0]

\* POST /api/leaderboard/sync
handleSync(s, t, body) ==
    LET payload == readJsonBody(body)
        result == syncPlayer(s, t, payload.value)
    IN  IF payload.thrown # NoError
        THEN [store |-> s, value |-> ErrorResponse(payload.thrown, FALSE)]
        ELSE IF result.store.thrown # NoError
        THEN [store |-> [result.store EXCEPT !.thrown = NoError],
              value |-> ErrorResponse(result.store.thrown, TRUE)]
        ELSE [store |-> result.store,
              value |-> [status |-> 200, error |-> "", synced |-> TRUE,
                         revision |-> result.value.revision]]

PostSync(body) ==
    \E r \in {handleSync(Store, now, body)} :
    LET uid == sanitizeId(body.payload.playerId, <<>>)
        rolled == computeKstSeasonWindow(now).id # state.season.id
        entries == IF body.payload.gameScores.kind = "object"
                   THEN body.payload.gameScores.entries ELSE <<>>
    IN  /\ phase = "serving"
        /\ r.store.state.revision <= MaxRevision
        /\ Commit("postSync", <<body>>, r)
        /\ submitted' = IF ~r.value.synced THEN submitted
                        ELSE MergeSubmitted(IF rolled THEN EmptyMap ELSE submitted,
                                            IF r.value.status # 200 THEN EmptyMap
                                            ELSE Submits(uid, entries))
        /\ CountWindows
        /\ UNCHANGED <<now, phase, diskVars, persistCalls, serverVars>>

\* GET /api/leaderboard/snapshot with the search parameters of the request.
Snapshot(params) ==
    \E r \in {handleSnapshot(Store, now, params)} :
    LET rolled == computeKstSeasonWindow(now).id # state.season.id
    IN  /\ phase = "serving"
        /\ r.store.state.revision <= MaxRevision
        /\ Commit("snapshot", <<params>>, r)
        /\ submitted' = IF rolled THEN EmptyMap ELSE submitted
        /\ CountWindows
        /\ UNCHANGED <<now, phase, diskVars, persistCalls, serverVars>>

\* GET /api/health: the revision, season and updatedAt of store.state as they
\* are.
Health ==
    /\ phase = "serving"
    /\ notified' = <<>>
    /\ ret' = [op |-> "health", arg |-> <<>>, thrown |-> NoError,
               value |-> <<[status |-> 200, ok |-> TRUE,
                            revision |-> state.revision, season |-> state.season,
                            updatedAt |-> state.updatedAt]>>,
               builds |-> 0]
    /\ UNCHANGED <<now, phase, storeVars, diskVars, histVars, serverVars, frames>>

\* GET /api/leaderboard/events: the ready frame, then the response joins
\* sseClients.
OpenEvents(c) ==
    /\ phase = "serving"
    /\ conns[c] = "idle"
    /\ frames' = [frames EXCEPT ![c] =
                     <<[event |-> "ready", revision |-> state.revision,
                        season |-> state.season]>>]
    /\ sseClients' = sseClients \cup {c}
    /\ conns' = [conns EXCEPT ![c] = "open"]
    /\ Quiet("events")
    /\ UNCHANGED <<now, phase, storeVars, diskVars, histVars, heartbeat, finalDone>>

\* A close handler that leaves the response in sseClients.
CloseEventsKeepsClient(c) ==
    /\ phase = "serving"
    /\ conns[c] \in {"open", "ended"}
    /\ conns' = [conns EXCEPT ![c] = "closed"]
    /\ Quiet("close")
    /\ UNCHANGED <<now, phase, storeVars, diskVars, histVars, heartbeat, finalDone,
                   frames, sseClients>>

\* req.on('close', () => sseClients.delete(res))
CloseEvents(c) ==
    /\ phase = "serving"
    /\ conns[c] \in {"open", "ended"}
    /\ sseClients' = sseClients \ {c}
    /\ conns' = [conns EXCEPT ![c] = "closed"]
    /\ Quiet("close")
    /\ UNCHANGED <<now, phase, storeVars, diskVars, histVars, heartbeat, finalDone,
                   frames>>

\* The setInterval callback: a ping line to every client of sseClients.
Heartbeat ==
    /\ phase = "serving"
    /\ heartbeat # <<>>
    /\ heartbeat[1] <= now
    /\ frames' = WriteAll(frames, sseClients, <<[event |-> "ping"]>>)
    /\ heartbeat' = <<heartbeat[1] + HEARTBEAT_MS>>
    /\ Quiet("heartbeat")
    /\ UNCHANGED <<now, phase, storeVars, diskVars, histVars, sseClients, conns,
                   finalDone>>

\* Shutdown signals the process receives in a run.
MaxSignals == 1

\* gracefulShutdown(), up to the first await of the persistNow it calls.
Shutdown ==
    /\ phase = "serving"
    /\ Len(inflight) < MaxInflight
    /\ Len(SelectSeq(inflight, LAMBDA persist : persist.final)) + Len(finalDone)
          < MaxSignals
    /\ heartbeat' = <<>>
    /\ subscribers' = SelectSeq(subscribers, LAMBDA l : l # "sse")
    /\ conns' = [c \in Conns |->
                    IF c \in sseClients /\ conns[c] = "open" THEN "ended" ELSE conns[c]]
    /\ persistTimer' = <<>>
    /\ timers' = IF persistTimer = <<>> THEN timers
                 ELSE SelectSeq(timers, LAMBDA due : due # persistTimer[1])
    /\ inflight' = Append(inflight, [NewPersist(state) EXCEPT !.final = TRUE])
    /\ Quiet("shutdown")
    /\ UNCHANGED <<now, phase, state, overallCache, gameCacheMap, tempFile, dataFile,
                   histVars, sseClients, finalDone, frames>>

\* server.close(() => process.exit(0)), in the finally of a final persist: with
\* no connection left the process exits.
Exit ==
    /\ phase = "serving"
    /\ finalDone # <<>>
    /\ \A c \in Conns : conns[c] \in {"idle", "closed"}
    /\ phase' = "exited"
    /\ Quiet("exit")
    /\ UNCHANGED <<now, storeVars, diskVars, histVars, serverVars, frames>>

\* ------------------------------------------------------------ inputs
P1 == <<"p", "1">>
P2 == <<"p", "2">>
G1 == <<"g", "1">>
G2 == <<"g", "2">>
Ann == <<"A", "n", "n">>
Cat == <<"c", "a", "t">>

Request(playerId, nickname, avatar, gameScores) ==
    [playerId |-> playerId, nickname |-> nickname, avatar |-> avatar,
     gameScores |-> gameScores]
Query(gameIds, playerId, topLimit) ==
    [gameIds |-> gameIds, playerId |-> playerId, topLimit |-> topLimit]

\* Documents a store file may hold at startup: one of the running season, with
\* entries normalizeState has to clean, and one of the season before.
DocCurrent ==
    [revision |-> Num(2),
     updatedAt |-> Num(StartTime - 1000),
     season |-> [id |-> Str(computeKstSeasonWindow(StartTime).id),
                 startAt |-> Num(computeKstSeasonWindow(StartTime).startAt),
                 endAt |-> Num(computeKstSeasonWindow(StartTime).endAt)],
     players |-> Obj(<<
        <<Str(<<" ", "p", "1">>),
          RawPlayer(Str(Ann), NotAString, Num(StartTime - 1000),
                    Obj(<<<<Str(G1), Num(1)>>, <<Str(<<"!">>), Num(5)>>,
                          <<Str(G2), Num(-1)>>>>))>>,
        <<Str(<<"?">>),
          RawPlayer(NotAString, NotAString, Num(0), Obj(<<<<Str(G1), Num(9)>>>>))>> >>)]

DocStale ==
    [revision |-> NumStr(2),
     updatedAt |-> Num(StartTime - WEEK_MS),
     season |-> [id |-> Str(computeKstSeasonWindow(StartTime - WEEK_MS).id),
                 startAt |-> Num(computeKstSeasonWindow(StartTime - WEEK_MS).startAt),
                 endAt |-> Num(computeKstSeasonWindow(StartTime - WEEK_MS).endAt)],
     players |-> Obj(<<
        <<Str(P2),
          RawPlayer(NotAString, Str(Cat), Num(StartTime - WEEK_MS),
                    Obj(<<<<Str(G1), Num(1)>>>>))>> >>)]

\* The store on its own: no connection, no heartbeat, no shutdown.
NoServer ==
    /\ sseClients = {}
    /\ conns = [c \in Conns |-> "idle"]
    /\ frames = [c \in Conns |-> <<>>]
    /\ heartbeat = <<>>
    /\ finalDone = <<>>

InitWith(files) ==
    /\ now = StartTime
    /\ phase = "constructed"
    /\ state = createEmptyState(StartTime)
    /\ persistTimer = <<>>
    /\ overallCache = <<>>
    /\ gameCacheMap = EmptyMap
    /\ subscribers = <<>>
    /\ timers = <<>>
    /\ inflight = <<>>
    /\ tempFile = Missing
    /\ dataFile \in files
    /\ ret = [op |-> "new", arg |-> <<>>, thrown |-> NoError, value |-> <<>>,
              builds |-> 0]
    /\ notified = <<>>
    /\ submitted = EmptyMap
    /\ windows = 0
    /\ persistCalls = 0
    /\ mutInWindow = 0
    /\ attained = NotKept
    /\ NoServer

\* ------------------------------------------------------------ Spec
\* The store serving sync and snapshot requests of two players while the clock
\* passes a weekly boundary.
SyncRequests ==
    {Request(Str(P1), NotAString, NotAString, Obj(<<<<Str(G1), Num(2)>>>>)),
     Request(Str(P1), NotAString, NotAString, Obj(<<<<Str(G1), Frac(3, 2)>>>>)),
     Request(Str(P1), Str(Ann), NotAString, NotAnObject),
     Request(Str(<<" ", "p", "2", "!">>), NotAString, NotAString,
             Obj(<<<<Str(G1), Num(1)>>>>)),
     Request(Str(P2), NotAString, NotAString,
             Obj(<<<<Str(G2), NumStr(1)>>, <<Str(<<"!">>), Num(5)>>,
                   <<Str(G1), Num(-1)>>>>)),
     Request(Str(<<"!">>), NotAString, NotAString, Obj(<<<<Str(G1), Num(2)>>>>))}

Queries ==
    {Query(<<G1>>, Str(P1), Num(1)),
     Query(<<G1, <<"!">>, G2, G1>>, Str(P2), JsNull)}

Init == InitWith({Missing, Json(DocCurrent)})

Next ==
    \/ Load
    \/ Tick
    \/ \E req \in SyncRequests : SyncPlayer(req)
    \/ \E query \in Queries : GetSnapshot(query)
    \/ EnsureActiveSeason

Spec == Init /\ [][Next]_vars

\* ------------------------------------------------------------ SpecLoad
\* The store started on every kind of store file and data directory.
LoadRequests ==
    {Request(Str(P1), NotAString, NotAString, Obj(<<<<Str(G1), Num(2)>>>>)),
     Request(Str(P2), NotAString, Num(7),
             Obj(<<<<Str(<<"!">>), Num(5)>>, <<Str(G1), Num(-1)>>,
                   <<Str(<<"g", "3">>), Str(<<"a", "b", "c">>)>>,
                   <<Str(<<"g", "4">>), Num(0)>>, <<Str(G2), NumStr(1)>>,
                   <<Str(<<" ", "g", "5">>), Frac(5, 2)>>>>))}

InitLoad ==
    InitWith({Missing, Partial, Unreadable, NoDirectory, Json(DocCurrent), Json(DocStale)})

LoadQueries ==
    {Query(<<G1>>, Str(P1), Num(1)), Query(<<G2, G1>>, Str(P2), JsNull)}

NextLoad ==
    \/ Load
    \/ Tick
    \/ \E req \in LoadRequests : SyncPlayer(req)
    \/ \E query \in LoadQueries : GetSnapshot(query)

SpecLoad == InitLoad /\ [][NextLoad]_vars

\* ------------------------------------------------------------ SpecSeason
\* computeKstSeasonWindow called on instants before and after the epoch: every
\* third hour of the weeks around it, and the milliseconds next to each.
MaxSteps == 80
StepMs == 3 * HOUR_MS

Instants == {q * StepMs + e : q \in (0 - MaxSteps)..MaxSteps, e \in {0 - 1, 0, 1}}

ComputeKstSeasonWindow(nowMs) ==
    /\ notified' = <<>>
    /\ ret' = [op |-> "computeKstSeasonWindow", arg |-> <<nowMs>>,
               thrown |-> NoError, value |-> <<computeKstSeasonWindow(nowMs)>>,
               builds |-> 0]
    /\ UNCHANGED <<now, phase, storeVars, diskVars, histVars, serverVars, frames>>

InitSeason == InitWith({Missing})

NextSeason == \E nowMs \in Instants : ComputeKstSeasonWindow(nowMs)

SpecSeason == InitSeason /\ [][NextSeason]_vars

\* ------------------------------------------------------------ SpecSanitize
\* toSafeScore and clampTopLimit called on values of every kind JSON.parse and
\* a query string can give: numbers, negative and fractional, numeric strings,
\* booleans, null, and what Number() makes NaN or Infinity of.
MaxNumber == 12

Numbers == ((0 - MaxNumber)..MaxNumber) \cup {49, 50, 51, 500}

SanitizerInputs ==
    {Num(n) : n \in Numbers} \cup {NumStr(n) : n \in Numbers}
        \cup {Frac(n, d) : n \in Numbers, d \in {2, 3}}
        \cup {JsNull, JsUndefined, JsText, JsInfinity, JsNaN, JsObject,
               JsBool(TRUE), JsBool(FALSE)}

Sanitize(op, value, result) ==
    /\ notified' = <<>>
    /\ ret' = [op |-> op, arg |-> <<value>>, thrown |-> NoError,
               value |-> <<result>>, builds |-> 0]
    /\ UNCHANGED <<now, phase, storeVars, diskVars, histVars, serverVars, frames>>

ToSafeScore(value) == Sanitize("toSafeScore", value, toSafeScore(value))

ClampTopLimit(value) == Sanitize("clampTopLimit", value, clampTopLimit(value))

InitSanitize == InitWith({Missing})

NextSanitize ==
    \/ \E value \in SanitizerInputs : ToSafeScore(value)
    \/ \E value \in SanitizerInputs : ClampTopLimit(value)

SpecSanitize == InitSanitize /\ [][NextSanitize]_vars

\* ------------------------------------------------------------ SpecNotify
\* The store with listeners that subscribe and unsubscribe, one of them throwing.
NotifyRequests ==
    {Request(Str(P1), NotAString, NotAString, Obj(<<<<Str(G1), Num(1)>>>>)),
     Request(Str(P1), Str(Ann), NotAString, Obj(<<<<Str(G1), Num(1)>>>>)),
     Request(Str(P1), NotAString, Str(Cat), NotAnObject),
     Request(NotAString, NotAString, NotAString, Obj(<<<<Str(G1), Num(2)>>>>))}

InitNotify == InitWith({Partial, Json(DocStale)})

NextNotify ==
    \/ Load
    \/ Tick
    \/ \E req \in NotifyRequests : SyncPlayer(req)
    \/ GetSnapshot(Query(<<G1>>, Str(P1), Num(1)))
    \/ EnsureActiveSeason
    \/ \E l \in Listeners : Subscribe(l)
    \/ \E l \in Listeners : Unsubscribe(l)

SpecNotify == InitNotify /\ [][NextNotify]_vars

\* ------------------------------------------------------------ SpecIO
\* The store with its timers running and its persists in flight.
IoRequests ==
    {Request(Str(P1), NotAString, NotAString, Obj(<<<<Str(G1), Num(1)>>>>)),
     Request(Str(P1), Str(Ann), NotAString, Obj(<<<<Str(G1), Num(2)>>>>))}

InitIO == InitWith({Missing})

NextIO ==
    \/ Load
    \/ Tick
    \/ \E req \in IoRequests : SyncPlayer(req)
    \/ \E i \in 1..MaxInflight : TimerFire(i)
    \/ \E i \in 1..MaxInflight : FsOpen(i)
    \/ \E i \in 1..MaxInflight : FsWrite(i)
    \/ \E i \in 1..MaxInflight : FsRename(i)
    \/ \E i \in 1..MaxInflight : FsFail(i)

SpecIO == InitIO /\ [][NextIO]_vars

\* ------------------------------------------------------------ SpecServer
\* The server behind its HTTP boundary: sync requests with bodies of every
\* kind, and one event stream that opens and closes.  It starts
\* HEARTBEAT_MS - TickMs after the process booted with no store file and served
\* nothing since, so that the first heartbeat is one tick away.
BootTime == StartTime + TickMs - HEARTBEAT_MS

\* new LeaderboardStore(DATA_FILE)
Constructed(t) ==
    [state |-> createEmptyState(t), persistTimer |-> <<>>, overallCache |-> <<>>,
     gameCacheMap |-> EmptyMap, subscribers |-> <<>>, timers |-> <<>>,
     notified |-> <<>>, builds |-> 0, thrown |-> NoError]

\* await store.load(); store.subscribe(...)
Booted(file) ==
    [load(Constructed(BootTime), BootTime, file) EXCEPT !.subscribers = Append(@, "sse")]

ServerBodies ==
    {Body(<<64>>, "json",
          Request(Str(P1), NotAString, NotAString, Obj(<<<<Str(G1), Num(1)>>>>))),
     Body(<<MAX_BODY_SIZE \div 2, MAX_BODY_SIZE \div 2>>, "json",
          Request(Str(P1), NotAString, NotAString, Obj(<<<<Str(G1), Num(1)>>>>))),
     Body(<<MAX_BODY_SIZE \div 2, MAX_BODY_SIZE \div 2, 1>>, "json",
          Request(Str(P1), NotAString, NotAString, Obj(<<<<Str(G1), Num(1)>>>>))),
     Body(<<16>>, "invalid", EmptyPayload),
     Body(<<2>>, "empty", EmptyPayload)}

InitServer ==
    /\ now = StartTime
    /\ phase = "serving"
    /\ \E s \in {Booted(Missing)} :
          /\ state = s.state
          /\ persistTimer = s.persistTimer
          /\ overallCache = s.overallCache
          /\ gameCacheMap = s.gameCacheMap
          /\ subscribers = s.subscribers
          /\ timers = s.timers
    /\ inflight = <<>>
    /\ tempFile = Missing
    /\ dataFile = Missing
    /\ ret = [op |-> "listen", arg |-> <<>>, thrown |-> NoError, value |-> <<>>,
              builds |-> 0]
    /\ notified = <<>>
    /\ submitted = EmptyMap
    /\ windows = 0
    /\ persistCalls = 0
    /\ mutInWindow = 0
    /\ attained = NotKept
    /\ sseClients = {}
    /\ conns = [c \in Conns |-> "idle"]
    /\ frames = [c \in Conns |-> <<>>]
    /\ heartbeat = <<BootTime + HEARTBEAT_MS>>
    /\ finalDone = <<>>

NextServer ==
    \/ Tick
    \/ \E body \in ServerBodies : PostSync(body)
    \/ \E c \in {"c1"} : OpenEvents(c)
    \/ \E c \in {"c1"} : CloseEvents(c)

SpecServer == InitServer /\ [][NextServer]_vars

\* ------------------------------------------------------------ SpecTie
\* Two players reaching the same score at different times of a week and
\* syncing it again, with the history of when each score was reached.
TieStart == StartTime - 2 * TickMs

TieRequests ==
    {Request(Str(P1), NotAString, NotAString, Obj(<<<<Str(G1), Num(1)>>>>)),
     Request(Str(P2), NotAString, NotAString, Obj(<<<<Str(G1), Num(1)>>>>))}

InitTie ==
    /\ now = TieStart
    /\ phase = "serving"
    /\ \E s \in {load(Constructed(TieStart), TieStart, Missing)} :
          /\ state = s.state
          /\ persistTimer = s.persistTimer
          /\ overallCache = s.overallCache
          /\ gameCacheMap = s.gameCacheMap
          /\ subscribers = s.subscribers
          /\ timers = s.timers
    /\ inflight = <<>>
    /\ tempFile = Missing
    /\ dataFile = Missing
    /\ ret = [op |-> "load", arg |-> <<>>, thrown |-> NoError, value |-> <<TRUE>>,
              builds |-> 0]
    /\ notified = <<>>
    /\ submitted = EmptyMap
    /\ windows = 0
    /\ persistCalls = 0
    /\ mutInWindow = 0
    /\ attained = EmptyMap
    /\ NoServer

NextTie ==
    \/ Tick
    \/ \E req \in TieRequests : SyncPlayer(req)
    \/ GetSnapshot(Query(<<G1>>, Str(P1), Num(3)))

SpecTie == InitTie /\ [][NextTie]_vars

\* ------------------------------------------------------------ SpecFlush
\* The loaded store taking one player's syncs while its timers fire, its
\* persists write and rename, and the process receives shutdown signals.
FlushRequests ==
    {Request(Str(P1), NotAString, NotAString, Obj(<<<<Str(G1), Num(1)>>>>))}

InitFlush ==
    /\ now = StartTime
    /\ phase = "serving"
    /\ \E s \in {load(Constructed(StartTime), StartTime, Missing)} :
          /\ state = s.state
          /\ persistTimer = s.persistTimer
          /\ overallCache = s.overallCache
          /\ gameCacheMap = s.gameCacheMap
          /\ subscribers = s.subscribers
          /\ timers = s.timers
    /\ inflight = <<>>
    /\ tempFile = Missing
    /\ dataFile = Missing
    /\ ret = [op |-> "load", arg |-> <<>>, thrown |-> NoError, value |-> <<TRUE>>,
              builds |-> 0]
    /\ notified = <<>>
    /\ submitted = EmptyMap
    /\ windows = 0
    /\ persistCalls = 0
    /\ mutInWindow = 0
    /\ attained = NotKept
    /\ NoServer

NextFlush ==
    \/ Tick
    \/ \E req \in FlushRequests : SyncPlayer(req)
    \/ \E i \in 1..MaxInflight : TimerFire(i)
    \/ \E i \in 1..MaxInflight : FsOpen(i)
    \/ \E i \in 1..MaxInflight : FsWrite(i)
    \/ \E i \in 1..MaxInflight : FsRename(i)
    \/ Shutdown
    \/ Exit

SpecFlush == InitFlush /\ [][NextFlush]_vars

\* ------------------------------------------------------------ SpecRestart
\* The process ends, however it does, and is started again: what it held in
\* memory, its timers and its persists in flight are gone, and a new store
\* loads the file at the real path.
Restart ==
    /\ phase = "serving"
    /\ \E r \in {[store |-> load(Constructed(now), now, dataFile), value |-> TRUE]} :
          /\ phase' = IF r.store.thrown # NoError THEN "exited" ELSE "serving"
          /\ Commit("restart", <<>>, r)
          /\ submitted' = StoredScores(r.store.state.players)
    /\ inflight' = <<>>
    /\ windows' = 0
    /\ persistCalls' = 0
    /\ mutInWindow' = 0
    /\ UNCHANGED <<now, tempFile, dataFile, serverVars>>

\* A nickname of 33 characters, the 32nd a space.
LongNickname == [i \in 1..33 |-> IF i = 32 THEN " " ELSE "a"]

RestartRequests ==
    {Request(Str(P1), Str(LongNickname), NotAString, Obj(<<<<Str(G1), Num(1)>>>>)),
     Request(Str(P2), Str(Ann), Str(Cat), Obj(<<<<Str(G2), Num(2)>>>>))}

NextRestart ==
    \/ Tick
    \/ \E req \in RestartRequests : SyncPlayer(req)
    \/ \E i \in 1..MaxInflight : TimerFire(i)
    \/ \E i \in 1..MaxInflight : FsOpen(i)
    \/ \E i \in 1..MaxInflight : FsWrite(i)
    \/ \E i \in 1..MaxInflight : FsRename(i)
    \/ Restart

SpecRestart == InitFlush /\ [][NextRestart]_vars

\* ------------------------------------------------------------ SpecPersist
\* The loaded store running on: syncs, debounce timer callbacks and the file
\* steps of the persists, none of which fails from outside, and no signal.
NextPersist ==
    \/ Tick
    \/ \E req \in FlushRequests : SyncPlayer(req)
    \/ \E i \in 1..MaxInflight : TimerFire(i)
    \/ \E i \in 1..MaxInflight : FsOpen(i)
    \/ \E i \in 1..MaxInflight : FsWrite(i)
    \/ \E i \in 1..MaxInflight : FsRename(i)

SpecPersist == InitFlush /\ [][NextPersist]_vars

\* ------------------------------------------------------------ SpecAtomic
\* The store, loaded in the week before, from the first instant of a week on:
\* the syncs, the first of which resets the season, among the timer callbacks,
\* the file steps of the persists and a shutdown signal.
AtomicStart == StartTime + TickMs

InitAtomic ==
    /\ now = AtomicStart
    /\ phase = "serving"
    /\ \E s \in {load(Constructed(StartTime), StartTime, Missing)} :
          /\ state = s.state
          /\ persistTimer = s.persistTimer
          /\ overallCache = s.overallCache
          /\ gameCacheMap = s.gameCacheMap
          /\ subscribers = s.subscribers
          /\ timers = s.timers
    /\ inflight = <<>>
    /\ tempFile = Missing
    /\ dataFile = Missing
    /\ ret = [op |-> "tick", arg |-> <<>>, thrown |-> NoError, value |-> <<>>,
              builds |-> 0]
    /\ notified = <<>>
    /\ submitted = EmptyMap
    /\ windows = 0
    /\ persistCalls = 0
    /\ mutInWindow = 0
    /\ attained = NotKept
    /\ NoServer

NextAtomic ==
    \/ Tick
    \/ \E req \in FlushRequests : SyncPlayer(req)
    \/ \E i \in 1..MaxInflight : TimerFire(i)
    \/ \E i \in 1..MaxInflight : FsOpen(i)
    \/ \E i \in 1..MaxInflight : FsWrite(i)
    \/ \E i \in 1..MaxInflight : FsRename(i)
    \/ Shutdown

SpecAtomic == InitAtomic /\ [][NextAtomic]_vars

\* ------------------------------------------------------------ SpecHealth
\* The server answering health checks and opening an event stream between sync
\* requests, while the clock passes a weekly boundary.
HealthBodies ==
    {Body(<<64>>, "json",
          Request(Str(P1), NotAString, NotAString, Obj(<<<<Str(G1), Num(1)>>>>)))}

NextHealth ==
    \/ Tick
    \/ \E body \in HealthBodies : PostSync(body)
    \/ Health
    \/ OpenEvents("c1")
    \/ CloseEvents("c1")

SpecHealth == InitServer /\ [][NextHealth]_vars

\* ------------------------------------------------------------ SpecStream
\* The server with its event streams: connections that open and close while
\* sync requests change the store, the heartbeat, and shutdown signals.
StreamBodies ==
    {Body(<<64>>, "json",
          Request(Str(P1), NotAString, NotAString, Obj(<<<<Str(G1), Num(1)>>>>)))}

NextStream ==
    \/ Tick
    \/ \E body \in StreamBodies : PostSync(body)
    \/ \E c \in Conns : OpenEvents(c)
    \/ \E c \in Conns : CloseEvents(c)
    \/ Heartbeat
    \/ Shutdown

SpecStream == InitServer /\ [][NextStream]_vars

\* ------------------------------------------------------------ SpecShutdown
\* The store with its timers and persists, and the process receiving shutdown
\* signals and exiting.
NextShutdown ==
    \/ NextIO
    \/ Shutdown
    \/ Exit

SpecShutdown == InitIO /\ [][NextShutdown]_vars

\* ------------------------------------------------------------ SpecRank
\* The ranking as a function of the players: the store holds up to three
\* players, inserted in any order, with scores and update times that tie, and
\* snapshots are read from it.
RankUids == {P1, P2, <<"P", "1">>}
RankScores == {0, 100, 200}
RankTimes == {500, 1000}

RankPlayer(uid, score, updatedAt) ==
    [uid |-> uid, nickname |-> DefaultNickname, avatar |-> DefaultAvatar,
     updatedAt |-> updatedAt,
     gameScores |-> IF score > 0 THEN [g \in {G1} |-> score] ELSE EmptyMap,
     overallScore |-> score]

RankPlayers ==
    {RankPlayer(uid, score, updatedAt) :
        uid \in RankUids, score \in RankScores, updatedAt \in RankTimes}

RankInputs ==
    {players \in UNION {[1..n -> RankPlayers] : n \in 1..Cardinality(RankUids)} :
        \A i, j \in 1..Len(players) : players[i].uid = players[j].uid => i = j}

RankQueries ==
    {Query(<<G1>>, Str(P1), Num(1)), Query(<<G1>>, Str(P2), Num(3))}

InitRank ==
    /\ now = StartTime
    /\ phase = "serving"
    /\ \E players \in RankInputs :
          state = [createEmptyState(StartTime) EXCEPT !.players = players]
    /\ persistTimer = <<>>
    /\ overallCache = <<>>
    /\ gameCacheMap = EmptyMap
    /\ subscribers = <<>>
    /\ timers = <<>>
    /\ inflight = <<>>
    /\ tempFile = Missing
    /\ dataFile = Missing
    /\ ret = [op |-> "load", arg |-> <<>>, thrown |-> NoError, value |-> <<TRUE>>,
              builds |-> 0]
    /\ notified = <<>>
    /\ submitted = StoredScores(state.players)
    /\ windows = 0
    /\ persistCalls = 0
    /\ mutInWindow = 0
    /\ attained = NotKept
    /\ NoServer

NextRank == \E query \in RankQueries : GetSnapshot(query)

SpecRank == InitRank /\ [][NextRank]_vars

\* ------------------------------------------------------------ SpecRoute
\* Snapshot requests over the player tables of SpecRank: one without any search
\* parameter, one with an empty topLimit, one with topLimit=2.
SnapshotParams ==
    {[gameIds |-> NotAString, playerId |-> NotAString, topLimit |-> JsNull],
     [gameIds |-> Str(G1 \o <<",", " ">> \o G2 \o <<",">>), playerId |-> Str(P1),
      topLimit |-> JsEmptyString],
     [gameIds |-> Str(G1), playerId |-> Str(P2), topLimit |-> NumStr(2)]}

NextRoute == \E params \in SnapshotParams : Snapshot(params)

SpecRoute == InitRank /\ [][NextRoute]_vars

\* ------------------------------------------------------------ properties
\* The k-th call a listener list was given, as the claims read it.
NotifiedTo(calls, l, revision) ==
    {k \in 1..Len(calls) : calls[k].listener = l /\ calls[k].revision = revision}

\* C1 (under Spec): within a season the score a player holds for a game is the
\* greatest positive sanitized score submitted for that player and game, in
\* whatever order the submissions came (submitted restarts at a season reset
\* and starts from the scores load found); so no call lowers a stored score.
C1_StoredIsMaxSubmitted ==
    phase = "serving" => StoredScores(state.players) = submitted

\* A lower score (3/2, floored to 1) was synced after the 2 the player holds.
C1_Witness ==
    /\ ret.op = "syncPlayer"
    /\ ret.arg = <<Request(Str(P1), NotAString, NotAString,
                           Obj(<<<<Str(G1), Frac(3, 2)>>>>))>>
    /\ ret.thrown = NoError
    /\ <<P1, G1>> \in DOMAIN submitted
    /\ submitted[<<P1, G1>>] = 2
    /\ StoredScores(state.players)[<<P1, G1>>] = 2

RECURSIVE SumValues(_, _)
SumValues(f, keys) ==
    IF keys = {} THEN 0
    ELSE LET k == CHOOSE x \in keys : TRUE
         IN  f[k] + SumValues(f, keys \ {k})

\* C2 (under Spec): in every state of the store, before and after load, after
\* every syncPlayer and every ensureActiveSeason, each player's overallScore is
\* the sum of the values of its gameScores.
C2_OverallIsSum ==
    \A i \in 1..Len(state.players) :
        state.players[i].overallScore
            = SumValues(state.players[i].gameScores, DOMAIN state.players[i].gameScores)

\* A player holds scores for two games, and one was loaded from the file.
C2_Witness ==
    /\ \E i \in 1..Len(state.players) :
          /\ DOMAIN state.players[i].gameScores = {G1, G2}
          /\ state.players[i].overallScore = 2
    /\ \E i \in 1..Len(state.players) :
          /\ state.players[i].nickname = Ann
          /\ state.players[i].overallScore = 1

\* Player p comes before player q in a ranking by the scores sp and sq.
Precedes(p, q, sp, sq) ==
    \/ sp > sq
    \/ sp = sq /\ p.updatedAt < q.updatedAt
    \/ sp = sq /\ p.updatedAt = q.updatedAt /\ localeCompare(p.uid, q.uid) < 0

\* entries is the ranking of the players by scoreOf (a score per position in
\* players): one entry per player with a positive score, carrying that player's
\* fields, ranked 1, 2, ... in the order of Precedes.
IsRankingOf(entries, players, scoreOf) ==
    LET scored == {i \in 1..Len(players) : scoreOf[i] > 0}
    IN  /\ Len(entries) = Cardinality(scored)
        /\ \A i \in scored : \E k \in 1..Len(entries) :
              entries[k] = [rank |-> k, uid |-> players[i].uid,
                            nickname |-> players[i].nickname,
                            avatar |-> players[i].avatar, score |-> scoreOf[i]]
        /\ \A k, m \in 1..Len(entries) :
              k < m =>
                LET i == PlayerIndex(players, entries[k].uid)
                    j == PlayerIndex(players, entries[m].uid)
                IN  i # 0 /\ j # 0
                      /\ Precedes(players[i], players[j], scoreOf[i], scoreOf[j])

\* top and my are what a snapshot shows of the ranking entries.
ShowsRanking(top, my, entries, limit, uid) ==
    /\ top = SubSeq(entries, 1, Min(limit, Len(entries)))
    /\ my = SelectSeq(entries, LAMBDA entry : entry.uid = uid)

\* C3 (under Spec): a getSnapshot that holds no ranking built at the revision
\* it answers for (the revision changed since the ranking was built, or none
\* was built) returns the ranking of the players as they are after the change:
\* its overall top and each game's top are the ranking of state.players, cut
\* at the limit, and nothing of an earlier ranking.
C3_SnapshotIsFresh ==
    [][(ret'.op = "getSnapshot" /\ ret'.value # <<>>) =>
        LET snap == ret'.value[1]
            query == ret'.arg[1]
            players == state'.players
            limit == clampTopLimit(query.topLimit)
            uid == sanitizeId(query.playerId, <<>>)
            overallOf == [i \in 1..Len(players) |-> players[i].overallScore]
            gameOf(g) == [i \in 1..Len(players) |->
                             IF g \in DOMAIN players[i].gameScores
                             THEN players[i].gameScores[g] ELSE 0]
        IN  /\ snap.revision = state'.revision
            /\ snap.season = state'.season
            /\ (overallCache = <<>> \/ overallCache[1].revision # state'.revision) =>
                  \E entries \in {overallCache'[1].entries} :
                      /\ IsRankingOf(entries, players, overallOf)
                      /\ ShowsRanking(snap.overallTop, snap.myOverall, entries, limit, uid)
            /\ \A g \in DOMAIN snap.games :
                  (g \notin DOMAIN gameCacheMap
                      \/ gameCacheMap[g].revision # state'.revision) =>
                  \E entries \in {gameCacheMap'[g].entries} :
                      /\ IsRankingOf(entries, players, gameOf(g))
                      /\ ShowsRanking(snap.games[g].top, snap.games[g].my,
                                      entries, limit, uid)]_vars

\* A snapshot rebuilt its rankings after several revision changes, with two
\* players ranked and a game ranking that differs from the overall one.
C3_Witness ==
    /\ ret.op = "getSnapshot"
    /\ ret.value # <<>>
    /\ ret.builds >= 2
    /\ state.revision >= 3
    /\ Len(overallCache[1].entries) = 2
    /\ G2 \in DOMAIN ret.value[1].games
    /\ Len(ret.value[1].games[G2].top) = 1
    /\ ret.value[1].games[G2].top[1].score # ret.value[1].overallTop[1].score

\* The sequences that hold the elements of seq, each once, in any order.
Reorderings(seq) ==
    {[i \in 1..Len(seq) |-> seq[f[i]]] :
        f \in {g \in [1..Len(seq) -> 1..Len(seq)] :
                 \A i, j \in 1..Len(seq) : g[i] = g[j] => i = j}}

\* The entry buildOverallCache sorts for a player.
SortKey(player) ==
    [uid |-> player.uid, score |-> player.overallScore, updatedAt |-> player.updatedAt]

\* C4 (under SpecRank): a ranking is ordered by score descending, then
\* updatedAt ascending, then uid ascending; compareEntry is a strict total
\* order on entries of distinct uids (never 0, antisymmetric, transitive); and
\* the ranking is the same whatever order the players were inserted in.  With
\* p1 at 100 updated at 1000 and p2 at 100 updated at 500, p2 ranks first.
C4_RankingOrder ==
    LET players == state.players
        overallOf == [i \in 1..Len(players) |-> players[i].overallScore]
        keys == {SortKey(players[i]) : i \in 1..Len(players)}
    IN  /\ \A a, b \in keys :
              a # b => /\ compareEntry(a, b) # 0
                       /\ (compareEntry(a, b) < 0) = (compareEntry(b, a) > 0)
        /\ \A a, b, c \in keys :
              compareEntry(a, b) < 0 /\ compareEntry(b, c) < 0 => compareEntry(a, c) < 0
        /\ overallCache # <<>> =>
              /\ IsRankingOf(overallCache[1].entries, players, overallOf)
              /\ \A other \in Reorderings(players) :
                    RankEntries(other, OverallScores(other), now)
                        = overallCache[1].entries
        /\ G1 \in DOMAIN gameCacheMap =>
              /\ IsRankingOf(gameCacheMap[G1].entries, players, overallOf)
              /\ \A other \in Reorderings(players) :
                    buildGameCache([Store EXCEPT !.gameCacheMap = EmptyMap,
                                                 !.state.players = other],
                                   Str(G1), now).gameCacheMap[G1].entries
                        = gameCacheMap[G1].entries
        /\ (overallCache # <<>>
              /\ players = <<RankPlayer(P1, 100, 1000), RankPlayer(P2, 100, 500)>>) =>
              /\ overallCache[1].entries[1].uid = P2
              /\ overallCache[1].entries[2].uid = P1

\* p1 (100 at 1000) was inserted before p2 (100 at 500) and p2 ranks first.
C4_Witness ==
    /\ state.players = <<RankPlayer(P1, 100, 1000), RankPlayer(P2, 100, 500)>>
    /\ ret.op = "getSnapshot"
    /\ overallCache # <<>>
    /\ overallCache[1].entries[1].uid = P2
    /\ overallCache[1].entries[2].uid = P1
    /\ G1 \in DOMAIN gameCacheMap

\* C5 (under SpecNotify): an ensureActiveSeason call that finds the stored
\* season id different from the id of the KST week of the current time returns
\* true and leaves the players empty, the season that of the current week, the
\* revision greater, no ranking cache, a persist timer pending and every
\* subscriber called with the new revision and season; a call that finds the
\* ids equal returns false.
C5_SeasonReset ==
    [][ret'.op = "ensureActiveSeason" =>
        IF computeKstSeasonWindow(now).id # state.season.id
        THEN /\ ret'.value = <<TRUE>>
             /\ state'.players = <<>>
             /\ state'.season = computeKstSeasonWindow(now)
             /\ state'.revision > state.revision
             /\ overallCache' = <<>>
             /\ gameCacheMap' = EmptyMap
             /\ persistTimer' # <<>>
             /\ \E i \in 1..Len(timers') : timers'[i] = persistTimer'[1]
             /\ \A i \in 1..Len(subscribers) :
                   \E k \in 1..Len(notified') :
                       /\ notified'[k].listener = subscribers[i]
                       /\ notified'[k].revision = state'.revision
                       /\ notified'[k].season = state'.season
        ELSE ret'.value = <<FALSE>>]_vars

\* The call reset a season: it returned true, with two listeners told, no
\* timer having been pending before it.
C5_Witness ==
    /\ ret.op = "ensureActiveSeason"
    /\ ret.value = <<TRUE>>
    /\ Len(notified) = 2
    /\ state.players = <<>>
    /\ timers = <<now + SAVE_DEBOUNCE_MS>>

\* C6 (under SpecNotify): of two ensureActiveSeason calls in immediate
\* succession the second returns false and changes nothing: state, caches and
\* timers stay as they are and no listener is called.
C6_ResetOnce ==
    [][(ret.op = "ensureActiveSeason" /\ ret'.op = "ensureActiveSeason") =>
        /\ ret'.value = <<FALSE>>
        /\ UNCHANGED storeVars
        /\ notified' = <<>>]_vars

\* The call before did the reset, and this one returned false.
C6_Witness ==
    /\ ret.op = "ensureActiveSeason"
    /\ ret.arg = <<TRUE>>
    /\ ret.value = <<FALSE>>
    /\ subscribers # <<>>

\* C7 (under SpecIO): the timer callbacks call persistNow once per debounce
\* window, a window being opened by a revision change that finds no timer
\* pending: the persists made and the timers pending add up to the windows
\* opened, at most one timer is pending, and while one is pending no call sets
\* another or moves its due time.
C7_Debounce ==
    /\ [](/\ persistCalls + Len(timers) = windows
          /\ Len(timers) <= 1
          /\ (persistTimer = <<>>) = (timers = <<>>))
    /\ [][(persistTimer # <<>> /\ ret'.op # "timer") =>
            (persistTimer' = persistTimer /\ timers' = timers)]_vars

\* Two windows, the second with two revision changes, and two persists.
C7_Witness ==
    /\ windows = 2
    /\ persistCalls = 2
    /\ mutInWindow >= 2
    /\ timers = <<>>

\* C8 (under SpecIO): whenever the process is killed, the file at the real path
\* is whole: absent, or a document a persist serialized; never a partial file.
C8_RealFileWhole == dataFile.kind # "partial"

\* C9 (under SpecNotify): a step calls each subscribed listener once per
\* revision it bumps, in revision order, with the new revision and the season
\* in the payload, before it returns; a step that leaves the revision as it is
\* calls no listener.
C9_NotifyOncePerRevision ==
    [][LET n == Len(subscribers)
           bumps == state'.revision - state.revision
       IN  /\ bumps >= 0
           /\ Len(notified') = bumps * n
           /\ \A b \in 1..bumps : \A i \in 1..n :
                 /\ notified'[(b - 1) * n + i].listener = subscribers[i]
                 /\ notified'[(b - 1) * n + i].revision = state.revision + b
                 /\ notified'[(b - 1) * n + i].season = state'.season]_vars

\* A syncPlayer that crossed the weekly boundary bumped the revision twice and
\* both listeners were called for each revision.
C9_Witness ==
    /\ ret.op = "syncPlayer"
    /\ Len(notified) = 4
    /\ notified[1].revision + 1 = notified[3].revision
    /\ notified[4].revision = state.revision

\* C10 (under SpecNotify): when a listener throws, the listeners after it are
\* still called and the call that changed the state does not fail for it: the
\* revision is bumped, every subscriber was called with the new revision, and
\* the call throws nothing of the listener's and returns its value.
C10_ListenerIsolation ==
    [][(\E k \in 1..Len(notified') : ListenerThrows(notified'[k].listener)) =>
        /\ ret'.thrown # ListenerError
        /\ ret'.thrown = NoError => ret'.value # <<>>
        /\ state'.revision > state.revision
        /\ \A i \in 1..Len(subscribers) :
              NotifiedTo(notified', subscribers[i], state'.revision) # {}]_vars

\* The throwing listener was called first, the other one after it, and
\* syncPlayer returned its result.
C10_Witness ==
    /\ ret.op = "syncPlayer"
    /\ ret.thrown = NoError
    /\ ret.value # <<>>
    /\ ret.value[1].revision = state.revision
    /\ Len(notified) = 2
    /\ notified[1].listener = "faulty"
    /\ notified[2].listener = "sse"

\* The step is a syncPlayer call whose playerId sanitizes to the empty string.
InvalidIdSync ==
    /\ ret'.op = "syncPlayer"
    /\ sanitizeId(ret'.arg[1].playerId, <<>>) = <<>>

\* The stored season is not the season of the current time.
SeasonRolled == state.season.id # computeKstSeasonWindow(now).id

\* The step did the season reset and changed the state in no other way: no
\* player, the revision one greater, the season of the current time, one timer
\* pending, each subscriber told once.
SeasonWasReset ==
    /\ state' = [revision |-> state.revision + 1, updatedAt |-> now,
                 season |-> computeKstSeasonWindow(now), players |-> <<>>]
    /\ persistTimer' # <<>>
    /\ persistTimer = <<>> => timers' = Append(timers, now + SAVE_DEBOUNCE_MS)
    /\ persistTimer # <<>> => timers' = timers /\ persistTimer' = persistTimer
    /\ subscribers' = subscribers
    /\ Len(notified') = Len(subscribers)
    /\ \A i \in 1..Len(subscribers) : notified'[i].revision = state.revision + 1

\* The step did the season reset and nothing else: the caches are left dropped.
OnlySeasonReset ==
    /\ SeasonWasReset
    /\ overallCache' = <<>>
    /\ gameCacheMap' = EmptyMap

\* C11 as stated (under SpecNotify): a syncPlayer call with an invalid playerId
\* throws invalid-player-id and leaves the whole store as it was and tells no
\* listener, at whatever time it is made.
C11_InvalidIdNoMutation ==
    [][InvalidIdSync =>
        /\ ret'.thrown = InvalidPlayerId
        /\ UNCHANGED storeVars
        /\ notified' = <<>>]_vars

\* C11, amended (under SpecNotify): a syncPlayer call with an invalid playerId
\* throws invalid-player-id with status 400 and writes no player; while the
\* stored season is the current one it leaves the whole store as it was and
\* tells no listener; a call made after the weekly boundary has first done the
\* season reset, and nothing but it.
C11_InvalidIdOnlyRollsSeason ==
    [][InvalidIdSync =>
        /\ ret'.thrown.message = "invalid-player-id"
        /\ ret'.thrown.statusCode = 400
        /\ ret'.value = <<>>
        /\ IF SeasonRolled THEN OnlySeasonReset
           ELSE UNCHANGED storeVars /\ notified' = <<>>]_vars

\* An invalid call made after the weekly boundary was rejected, and it reset
\* the season and told both listeners on its way.
C11_Witness ==
    /\ ret.op = "syncPlayer"
    /\ ret.thrown = InvalidPlayerId
    /\ Len(notified) = 2
    /\ state.players = <<>>
    /\ state.season = computeKstSeasonWindow(now)
    /\ persistTimer # <<>>

\* C13 as stated (under SpecNotify): getSnapshot leaves the revision and the
\* players as they were, whatever the state and the time of the call.
C13_SnapshotReadOnly ==
    [][ret'.op = "getSnapshot" =>
        /\ state'.revision = state.revision
        /\ state'.players = state.players]_vars

\* C13, amended (under SpecNotify): a getSnapshot call made while the stored
\* season is the current one leaves revision, players, season and updatedAt as
\* they were, sets no timer and tells no listener (it may fill the caches); a
\* call made after the weekly boundary has first done the season reset, and
\* changed the state in no other way; the snapshot carries the revision and the
\* season the store holds after the call.
C13_SnapshotOnlyRollsSeason ==
    [][ret'.op = "getSnapshot" =>
        /\ ret'.thrown = NoError
        /\ ret'.value[1].revision = state'.revision
        /\ ret'.value[1].season = state'.season
        /\ IF SeasonRolled THEN SeasonWasReset
           ELSE /\ state' = state
                /\ UNCHANGED <<persistTimer, timers, subscribers>>
                /\ notified' = <<>>]_vars

\* A snapshot read after the weekly boundary reset the season, told both
\* listeners and reports the new revision with an empty ranking.
C13_Witness ==
    /\ ret.op = "getSnapshot"
    /\ Len(notified) = 2
    /\ state.players = <<>>
    /\ ret.value[1].revision = state.revision
    /\ ret.value[1].overallTop = <<>>
    /\ overallCache # <<>>

\* The step is a call that starts with ensureActiveSeason().
CallsEnsureActiveSeason == ret'.op \in {"syncPlayer", "getSnapshot", "ensureActiveSeason"}

\* The step is a syncPlayer call that returned.
SyncReturned == ret'.op = "syncPlayer" /\ ret'.thrown = NoError

\* The players the merge of the step's syncPlayer found: none after a reset.
PlayersBefore == IF SeasonRolled THEN <<>> ELSE state.players

\* The step's syncPlayer raised a score of its player (a game the player had no
\* score of counts from 0) or changed the nickname or the avatar the player had.
ScoreOrProfileChanged ==
    LET uid == ret'.value[1].playerId
        i == PlayerIndex(PlayersBefore, uid)
        after == state'.players[PlayerIndex(state'.players, uid)]
    IN  \/ \E g \in DOMAIN after.gameScores :
              after.gameScores[g] >
                  (IF i = 0 THEN 0 ELSE ScoreOf(PlayersBefore[i].gameScores, g))
        \/ /\ i # 0
           /\ \/ PlayersBefore[i].nickname # after.nickname
              \/ PlayersBefore[i].avatar # after.avatar

\* C14 (under Spec): once loaded, every step leaves the revision where it was
\* plus 1 if the step reset the season plus 1 if it is a syncPlayer that reports
\* hasMeaningfulChange, so the revision never decreases and no other operation
\* changes it; syncPlayer reports hasMeaningfulChange exactly when a score
\* strictly increased or the nickname or the avatar changed.
C14_RevisionSteps ==
    [][phase = "serving" =>
        LET reset == IF CallsEnsureActiveSeason /\ SeasonRolled THEN 1 ELSE 0
            meaningful == IF SyncReturned /\ ret'.value[1].hasMeaningfulChange
                          THEN 1 ELSE 0
        IN  /\ state'.revision = state.revision + reset + meaningful
            /\ state'.revision >= state.revision
            /\ SyncReturned =>
                  (ret'.value[1].hasMeaningfulChange <=> ScoreOrProfileChanged)
            /\ SyncReturned => ret'.value[1].revision = state'.revision]_vars

\* A player loaded from the file with scores was given a new nickname by a
\* syncPlayer that reported the change, and the revision has moved on from the
\* file's.
C14_Witness ==
    /\ ret.op = "syncPlayer"
    /\ ret.thrown = NoError
    /\ ret.value[1].hasMeaningfulChange
    /\ ret.arg[1].gameScores = NotAnObject
    /\ ret.value[1].overallScore > 0
    /\ ret.value[1].revision = state.revision
    /\ state.revision >= 3

\* The step's syncPlayer repeats the call before it, argument for argument,
\* with no weekly boundary between the two.
RepeatsLastCall ==
    /\ ret.op = "syncPlayer" /\ ret.thrown = NoError
    /\ SyncReturned
    /\ ret'.arg = ret.arg
    /\ ~SeasonRolled

\* The step's syncPlayer brings nothing new: its player is stored with the same
\* nickname and avatar, and none of its scores is above the stored one.
ReplaysStale ==
    /\ SyncReturned
    /\ LET req == ret'.arg[1]
           i == PlayerIndex(PlayersBefore, sanitizeId(req.playerId, <<>>))
           entries == IF req.gameScores.kind = "object"
                      THEN req.gameScores.entries ELSE <<>>
       IN  /\ i # 0
           /\ PlayersBefore[i].nickname = sanitizeString(req.nickname, DefaultNickname, 32)
           /\ PlayersBefore[i].avatar = sanitizeString(req.avatar, DefaultAvatar, 32)
           /\ \A k \in 1..Len(entries) :
                 \/ sanitizeId(entries[k][1], <<>>) = <<>>
                 \/ toSafeScore(entries[k][2]) <=
                       ScoreOf(PlayersBefore[i].gameScores,
                               sanitizeId(entries[k][1], <<>>))

\* C15 (under SpecIO): a syncPlayer that repeats the call before it, or that
\* replays scores none of which is above the stored one with the stored
\* nickname and avatar, reports hasMeaningfulChange = false and leaves the
\* revision, every player's scores and overallScore, the season and the timers
\* as they were, and tells no listener.
C15_ReplayIsIdempotent ==
    [][(RepeatsLastCall \/ ReplaysStale) =>
        /\ ret'.value[1].hasMeaningfulChange = FALSE
        /\ state'.revision = state.revision
        /\ state'.season = state.season
        /\ Len(state'.players) = Len(state.players)
        /\ \A i \in 1..Len(state.players) :
              /\ state'.players[i].uid = state.players[i].uid
              /\ state'.players[i].gameScores = state.players[i].gameScores
              /\ state'.players[i].overallScore = state.players[i].overallScore
        /\ ret'.value[1].overallScore =
              state.players[PlayerIndex(state.players, ret'.value[1].playerId)].overallScore
        /\ UNCHANGED <<persistTimer, timers>>
        /\ notified' = <<>>]_vars

\* A lower score was replayed for a stored player after the persist of the
\* change had run: the call reports no change and no timer is pending.
C15_Witness ==
    /\ ret.op = "syncPlayer"
    /\ ret.thrown = NoError
    /\ ret.value[1].hasMeaningfulChange = FALSE
    /\ ret.value[1].overallScore = 2
    /\ ret.arg[1].gameScores = Obj(<<<<Str(G1), Num(1)>>>>)
    /\ persistTimer = <<>>
    /\ persistCalls > 0

\* C16 (under Spec): in every state every key of a player's gameScores is a
\* non-empty id of at most 96 characters of [a-zA-Z0-9_\-:.] and its value is a
\* positive integer; so an entry whose id sanitizes to nothing or whose score
\* is 0 or less, from a request or from the file, is never stored.
C16_StoredScoresValid ==
    \A i \in 1..Len(state.players) :
        \A g \in DOMAIN state.players[i].gameScores :
            /\ g # <<>>
            /\ Len(g) <= 96
            /\ \A k \in 1..Len(g) : g[k] \in IdChars
            /\ state.players[i].gameScores[g] \in Nat
            /\ state.players[i].gameScores[g] > 0

\* A request with a numeric string, an id of no valid character and a negative
\* score was merged: the player holds the first entry alone.
C16_Witness ==
    /\ ret.op = "syncPlayer"
    /\ ret.thrown = NoError
    /\ \E k \in 1..Len(ret.arg[1].gameScores.entries) :
          sanitizeId(ret.arg[1].gameScores.entries[k][1], <<>>) = <<>>
    /\ \E k \in 1..Len(ret.arg[1].gameScores.entries) :
          toSafeScore(ret.arg[1].gameScores.entries[k][2]) <= 0
    /\ PlayerIndex(state.players, P2) # 0
    /\ DOMAIN state.players[PlayerIndex(state.players, P2)].gameScores = {G2}

\* The step is a persist that fails: writeFile or rename rejects, or rename
\* finds no file at the temp path.
PersistFails ==
    /\ Len(inflight') < Len(inflight)
    /\ \/ ret'.op = "fsfail"
       \/ ret'.op = "fs" /\ tempFile.kind = "missing"

\* C18 (under SpecIO): the timer that starts a persist is cleared before the
\* persist begins; a persist that fails leaves the state, the revision and the
\* caches as they were, throws into no request, sets no timer and starts no
\* persist; a syncPlayer with a valid id never throws; and every step that
\* changes the revision leaves a persist scheduled, SAVE_DEBOUNCE_MS from now
\* when none was pending.
C18_PersistFailure ==
    [][/\ ret'.op = "timer" =>
            persistTimer' = <<>> /\ Len(timers') = Len(timers) - 1
       /\ PersistFails =>
            /\ UNCHANGED storeVars
            /\ ret'.thrown = NoError
            /\ notified' = <<>>
            /\ Len(inflight') = Len(inflight) - 1
            /\ \A j \in 1..Len(inflight') : \E k \in 1..Len(inflight) :
                  inflight'[j].data = inflight[k].data
            /\ persistCalls' = persistCalls
       /\ (ret'.op = "syncPlayer"
             /\ sanitizeId(ret'.arg[1].playerId, <<>>) # <<>>) =>
            ret'.thrown = NoError
       /\ state'.revision # state.revision =>
            /\ persistTimer' # <<>>
            /\ persistTimer = <<>> =>
                  /\ persistTimer' = <<now + SAVE_DEBOUNCE_MS>>
                  /\ timers' = Append(timers, now + SAVE_DEBOUNCE_MS)]_vars

\* After the only persist so far had failed, a syncPlayer changed the state and
\* opened the second debounce window.
C18_Witness ==
    /\ persistCalls = 1
    /\ inflight = <<>>
    /\ dataFile.kind = "missing"
    /\ ret.op = "syncPlayer"
    /\ ret.value[1].hasMeaningfulChange
    /\ windows = 2
    /\ mutInWindow = 1
    /\ persistTimer = <<now + SAVE_DEBOUNCE_MS>>

\* The body is longer than 128 KiB.
ExceedsLimit(body) == Received(body.chunks, Len(body.chunks)) > 128 * 1024

\* The step answered a POST /api/leaderboard/sync without calling syncPlayer
\* and left the store and its listeners alone.
RejectedAtBoundary ==
    /\ ret'.value[1].synced = FALSE
    /\ UNCHANGED storeVars
    /\ notified' = <<>>
    /\ UNCHANGED frames

\* C12 as stated (under SpecServer): a sync request whose body is not valid
\* JSON is answered 400 and one whose body exceeds 128 KiB is answered 413,
\* and in both cases syncPlayer is not called and the store is left as it was.
C12_BadBodyRejected ==
    [][ret'.op = "postSync" =>
        /\ ExceedsLimit(ret'.arg[1]) =>
              ret'.value[1].status = 413 /\ RejectedAtBoundary
        /\ (~ExceedsLimit(ret'.arg[1]) /\ ret'.arg[1].text # "json") =>
              ret'.value[1].status = 400 /\ RejectedAtBoundary]_vars

\* C12, amended (under SpecServer): a sync request whose body exceeds 128 KiB
\* is answered 413 (request-body-too-large), and one whose body, trimmed, is
\* not empty and not valid JSON is answered 400 (invalid-json); in both cases
\* syncPlayer is not called and the store is left as it was, at whatever time.
\* A body that is empty once trimmed is read as {} and given to syncPlayer,
\* which answers 400 (invalid-player-id) after ensureActiveSeason has run; a
\* body of exactly 128 KiB is accepted.
C12_BadBodyRejectedUnlessEmpty ==
    [][ret'.op = "postSync" =>
        /\ ExceedsLimit(ret'.arg[1]) =>
              /\ ret'.value[1].status = 413
              /\ ret'.value[1].error = "request-body-too-large"
              /\ RejectedAtBoundary
        /\ (~ExceedsLimit(ret'.arg[1]) /\ ret'.arg[1].text = "invalid") =>
              /\ ret'.value[1].status = 400
              /\ ret'.value[1].error = "invalid-json"
              /\ RejectedAtBoundary
        /\ (~ExceedsLimit(ret'.arg[1]) /\ ret'.arg[1].text = "empty") =>
              /\ ret'.value[1].status = 400
              /\ ret'.value[1].error = "invalid-player-id"
              /\ ret'.value[1].synced
              /\ IF SeasonRolled THEN OnlySeasonReset
                 ELSE UNCHANGED storeVars /\ notified' = <<>>
        /\ (~ExceedsLimit(ret'.arg[1]) /\ ret'.arg[1].text = "json") =>
              ret'.value[1].synced]_vars

\* A body that is no JSON was answered 400 after the weekly boundary, with a
\* player stored: the store still holds the season before and its player.
C12_Witness ==
    /\ ret.op = "postSync"
    /\ ret.arg[1].text = "invalid"
    /\ ret.value[1].status = 400
    /\ ret.value[1].synced = FALSE
    /\ state.season.id # computeKstSeasonWindow(now).id
    /\ state.players # <<>>

\* C20 (under SpecStream): sseClients is at every moment the set of the
\* connections opened and not yet closed; the step that reports a connection
\* closed takes it out of the set; and no frame, update or ping, is written to
\* a connection once it is closed.
C20_ClosedConnectionsLeave ==
    /\ [](sseClients = {c \in Conns : conns[c] \in {"open", "ended"}})
    /\ [][\A c \in Conns :
            /\ (conns[c] # "closed" /\ conns'[c] = "closed") => c \notin sseClients'
            /\ conns[c] = "closed" =>
                  /\ frames'[c] = frames[c]
                  /\ conns'[c] = "closed"
                  /\ c \notin sseClients']_vars

\* Both connections got an update after they opened; then one closed and the
\* heartbeat wrote its ping to the other alone.
C20_Witness ==
    /\ ret.op = "heartbeat"
    /\ conns["c1"] = "closed"
    /\ conns["c2"] = "open"
    /\ sseClients = {"c2"}
    /\ Len(frames["c1"]) = 2
    /\ frames["c1"][2].event = "update"
    /\ Len(frames["c2"]) = 3
    /\ frames["c2"][3].event = "ping"

\* The update frames among the frames the step wrote to connection c.
UpdatesWritten(c) ==
    SelectSeq(SubSeq(frames'[c], Len(frames[c]) + 1, Len(frames'[c])),
              LAMBDA frame : frame.event = "update")

SignalFlushes ==
    ret'.op = "shutdown" =>
        /\ persistTimer' = <<>>
        /\ timers' = <<>>
        /\ Len(inflight') = Len(inflight) + 1
        /\ SubSeq(inflight', 1, Len(inflight)) = inflight
        /\ inflight'[Len(inflight')].final
        /\ inflight'[Len(inflight')].data = Stringify(state)

\* The process exits only once a persist a signal started has settled.
ExitsAfterFinalPersist == phase = "exited" => finalDone # <<>>

\* Once the process has exited after a final persist that succeeded, the store
\* file holds the state that persist serialized.
FinalStateOnDisk ==
    (phase = "exited" /\ finalDone[1].ok) => dataFile = Json(finalDone[1].data)

\* C17 (under SpecShutdown): a shutdown signal cancels the pending debounce
\* timer and starts one final persist of the state at the signal; the process
\* exits only after that persist has settled; and when it has succeeded the
\* file holds the state of the signal, the last debounce window included.
C17_ShutdownFlushes ==
    /\ [][SignalFlushes]_vars
    /\ [](ExitsAfterFinalPersist /\ FinalStateOnDisk)

\* C21 (under SpecLoad): load throws nothing whatever the store file and its
\* directory are; after it the stored season is the window that holds the
\* current time and both caches are empty; and unless the file held a
\* document the state is the fresh empty one: revision 1, no player.
C21_LoadNeverThrows ==
    ret.op = "load" =>
        /\ ret.thrown = NoError
        /\ phase = "serving"
        /\ state.season = computeKstSeasonWindow(now)
        /\ state.season.startAt <= now /\ now < state.season.endAt
        /\ overallCache = <<>>
        /\ gameCacheMap = EmptyMap
        /\ dataFile.kind # "json" =>
              state.revision = 1 /\ state.players = <<>> /\ state.updatedAt = now

\* Monday 1970-01-05 09:00 in UTC+9, as a UTC timestamp.
FirstMondayReset == 4 * DAY_MS + KST_RESET_HOUR * HOUR_MS - KST_OFFSET_MS

WindowReturned == ret.op = "computeKstSeasonWindow"

\* C22 (under SpecSeason): the window computeKstSeasonWindow returns for an
\* instant contains it (startAt <= nowMs < endAt), is seven days long, and
\* starts a whole number of weeks from a Monday 09:00 in UTC+9; and two
\* instants get the same season id exactly when they get the same window.
C22_SeasonWindow ==
    [][(WindowReturned' =>
          LET nowMs == ret'.arg[1]
              w == ret'.value[1]
          IN  /\ w.startAt <= nowMs /\ nowMs < w.endAt
              /\ w.endAt = w.startAt + 7 * DAY_MS
              /\ (w.startAt - FirstMondayReset) % WEEK_MS = 0)
       /\ (WindowReturned /\ WindowReturned' =>
             LET a == ret.value[1]
                 b == ret'.value[1]
             IN  /\ (a.id = b.id) <=> (a.startAt = b.startAt)
                 /\ (a.id = b.id) <=>
                       (a.startAt <= ret'.arg[1] /\ ret'.arg[1] < a.endAt))]_vars

\* Two instants a millisecond apart on the two sides of a Monday 09:00.
C22_Witness ==
    /\ WindowReturned
    /\ ret.arg[1] = FirstMondayReset - WEEK_MS - 1
    /\ ret.value[1].endAt = ret.arg[1] + 1

\* The window of a reported season holds the time of the request.
HoldsNow(season) == season.startAt <= now /\ now < season.endAt

\* C23 (under SpecHealth): every response of the HTTP boundary (a sync, a health
\* check, the ready frame of an event stream) is given after the due rollover:
\* the season it reports holds the time of the request, and the store it read
\* the revision from is in the season of that time.
C23_EveryResponseRollsFirst ==
    /\ (ret.op = "postSync" /\ ret.value[1].synced) => ~SeasonRolled
    /\ ret.op = "health" => HoldsNow(ret.value[1].season) /\ ~SeasonRolled
    /\ ret.op = "events" => HoldsNow(frames["c1"][1].season) /\ ~SeasonRolled

\* The uids that have a record in players.
StoredUids(players) == {players[i].uid : i \in 1..Len(players)}

\* C24 (under SpecLoad): once the store is loaded a player's record leaves
\* players only in a season reset: a step that keeps the season keeps every
\* stored uid, and a step that drops one is a call that found the season ended
\* and left no record of the ended season.
C24_OnlyResetRemovesPlayers ==
    [][phase = "serving" =>
        /\ state'.season.id = state.season.id =>
              StoredUids(state.players) \subseteq StoredUids(state'.players)
        /\ ~(StoredUids(state.players) \subseteq StoredUids(state'.players)) =>
              /\ SeasonRolled
              /\ state'.season = computeKstSeasonWindow(now)
              /\ \A i \in 1..Len(state'.players) :
                    state'.players[i].updatedAt = now]_vars

\* Two players stored again in the season after a reset.
C24_Witness ==
    /\ state.season.id = computeKstSeasonWindow(StartTime + TickMs).id
    /\ StoredUids(state.players) = {P1, P2}
    /\ ret.op = "syncPlayer"

\* top and my show, of the players ranked by scoreOf, the first
\* min(limit, number ranked) entries and the entry of uid at its rank among all
\* of them; my is null for a uid without a record or with the score 0.
ShowsTopAndMine(top, my, players, scoreOf, limit, uid) ==
    LET ranked == {i \in 1..Len(players) : scoreOf[i] > 0}
        mine == {i \in ranked : players[i].uid = uid}
        before(i) == {j \in ranked :
                        Precedes(players[j], players[i], scoreOf[j], scoreOf[i])}
    IN  /\ Len(top) = Min(limit, Cardinality(ranked))
        /\ \A k \in 1..Len(top) : \E i \in ranked :
              /\ top[k].uid = players[i].uid
              /\ top[k].score = scoreOf[i]
              /\ top[k].rank = k
              /\ Cardinality(before(i)) = k - 1
        /\ mine = {} <=> my = <<>>
        /\ \A i \in mine :
              /\ Len(my) = 1
              /\ my[1].uid = uid
              /\ my[1].score = scoreOf[i]
              /\ my[1].rank = Cardinality(before(i)) + 1

\* C25 (under SpecRank): getSnapshot returns as overallTop, and as the top of
\* each game asked for, the first min(limit, number of ranked players) entries
\* of the rank order, limit being clampTopLimit(topLimit); myOverall and my are
\* the asking player's entry with its rank among all ranked players, also
\* beyond the limit, and null for a player never synced or with the score 0.
C25_TopAndMine ==
    (ret.op = "getSnapshot" /\ ret.value # <<>>) =>
        LET snap == ret.value[1]
            query == ret.arg[1]
            players == state.players
            limit == clampTopLimit(query.topLimit)
            uid == sanitizeId(query.playerId, <<>>)
            overallOf == [i \in 1..Len(players) |-> players[i].overallScore]
            gameOf(g) == [i \in 1..Len(players) |->
                             IF g \in DOMAIN players[i].gameScores
                             THEN players[i].gameScores[g] ELSE 0]
        IN  /\ ShowsTopAndMine(snap.overallTop, snap.myOverall, players, overallOf,
                               limit, uid)
            /\ DOMAIN snap.games = {query.gameIds[i] : i \in 1..Len(query.gameIds)}
            /\ \A g \in DOMAIN snap.games :
                  ShowsTopAndMine(snap.games[g].top, snap.games[g].my, players,
                                  gameOf(g), limit, uid)

\* Three players ranked, the top cut at 1, and the asking player third.
C25_Witness ==
    /\ ret.op = "getSnapshot"
    /\ Len(ret.value[1].overallTop) = 1
    /\ Len(overallCache[1].entries) = 3
    /\ ret.value[1].myOverall # <<>>
    /\ ret.value[1].myOverall[1].rank = 3
    /\ ret.value[1].games[G1].my[1].rank = 3

\* The entries of a request's gameScores that count: a game id that sanitizes
\* to a non-empty id and a numeric score of at least 1.
ValidEntries(entries) ==
    {k \in 1..Len(entries) :
        /\ sanitizeId(entries[k][1], <<>>) # <<>>
        /\ entries[k][2].kind \in {"number", "numstr"}
        /\ entries[k][2].num >= entries[k][2].den}

\* C26 (under SpecLoad): a syncPlayer request with a valid playerId returns
\* even when fields of it are invalid: the player's record holds, for each
\* valid entry of the request, the greater of that score and the stored one,
\* and no game for an entry with an empty game id or a non-numeric, zero or
\* negative score; a nickname or avatar that is missing or no string is
\* replaced by its default.
C26_PartialAcceptance ==
    [][(ret'.op = "syncPlayer" /\ sanitizeId(ret'.arg[1].playerId, <<>>) # <<>>) =>
        LET req == ret'.arg[1]
            uid == sanitizeId(req.playerId, <<>>)
            entries == IF req.gameScores.kind = "object"
                       THEN req.gameScores.entries ELSE <<>>
            valid == ValidEntries(entries)
            i == PlayerIndex(PlayersBefore, uid)
            before == IF i = 0 THEN EmptyMap ELSE PlayersBefore[i].gameScores
            after == state'.players[PlayerIndex(state'.players, uid)]
            sent(g) == {entries[k][2].num \div entries[k][2].den :
                           k \in {v \in valid : sanitizeId(entries[v][1], <<>>) = g}}
        IN  /\ ret'.thrown = NoError
            /\ ret'.value # <<>>
            /\ HasPlayer(state'.players, uid)
            /\ DOMAIN after.gameScores =
                  DOMAIN before \cup {sanitizeId(entries[k][1], <<>>) : k \in valid}
            /\ \A g \in DOMAIN after.gameScores :
                  /\ g # <<>>
                  /\ after.gameScores[g] > 0
                  /\ \A v \in sent(g) : after.gameScores[g] >= v
                  /\ after.gameScores[g] \in
                        sent(g) \cup (IF g \in DOMAIN before THEN {before[g]} ELSE {})
                  /\ g \in DOMAIN before => after.gameScores[g] >= before[g]
            /\ req.nickname.kind # "string" => after.nickname = DefaultNickname
            /\ req.avatar.kind # "string" => after.avatar = DefaultAvatar]_vars

\* The request with four invalid entries before its two valid ones, a missing
\* nickname and a number for the avatar was merged.
C26_Witness ==
    /\ ret.op = "syncPlayer"
    /\ ret.thrown = NoError
    /\ Len(ret.arg[1].gameScores.entries) = 6
    /\ Cardinality(ValidEntries(ret.arg[1].gameScores.entries)) = 2
    /\ \E i \in 1..Len(state.players) :
          /\ state.players[i].uid = P2
          /\ state.players[i].gameScores = (G2 :> 1) @@ (<<"g", "5">> :> 2)
          /\ state.players[i].nickname = DefaultNickname
          /\ state.players[i].avatar = DefaultAvatar

\* In the entries of a ranking no player stands behind one that reached the
\* same score later than it did.
FirstAttainedFirst(entries, ranking) ==
    \A a, b \in 1..Len(entries) :
        (/\ entries[a].score = entries[b].score
         /\ attained[<<entries[a].uid, ranking>>] < attained[<<entries[b].uid, ranking>>])
            => a < b

\* C27 (under SpecTie): among the players with an equal score in a ranking
\* the one that reached the score first ranks higher, whatever syncPlayer calls
\* were made since, those that change nothing included: so it is in the overall
\* ranking and the game rankings a getSnapshot answers from.
C27_FirstAttainerRanksHigher ==
    ret.op = "getSnapshot" =>
        /\ FirstAttainedFirst(overallCache[1].entries, <<>>)
        /\ \A g \in DOMAIN gameCacheMap : FirstAttainedFirst(gameCacheMap[g].entries, g)

\* C28 (under SpecLoad): of two getSnapshot calls in succession with the
\* revision the same across the second, the second rebuilds nothing the first
\* left: the overall cache and the cache of every game already in gameCacheMap
\* are the objects they were, and the only rankings built are those of games
\* not asked for since the last change.
C28_ReadsReuseCaches ==
    [][(/\ ret.op = "getSnapshot" /\ ret'.op = "getSnapshot"
        /\ state'.revision = state.revision) =>
        /\ overallCache' = overallCache
        /\ \A g \in DOMAIN gameCacheMap :
              g \in DOMAIN gameCacheMap' /\ gameCacheMap'[g] = gameCacheMap[g]
        /\ ret'.builds =
              Cardinality(DOMAIN ret'.value[1].games \ DOMAIN gameCacheMap)]_vars

\* A read of two games after a read of the same two: nothing was built.
C28_Witness ==
    /\ ret.op = "getSnapshot"
    /\ ret.builds = 0
    /\ DOMAIN ret.value[1].games = {G1, G2}
    /\ DOMAIN gameCacheMap = {G1, G2}
    /\ Len(overallCache[1].entries) = 2
    /\ Len(gameCacheMap[G2].entries) = 1

\* The kinds of value Number() gives a finite number for.
NumericKinds == {"number", "numstr", "boolean", "null"}

\* n is the greatest integer not above num/den (den > 0).
IsFloorOf(n, num, den) == n * den <= num /\ num < (n + 1) * den

\* C29 (under SpecSanitize): on a value of any kind toSafeScore returns an
\* integer that is not negative: 0 for what is no finite number or is below 1,
\* else the number rounded down; and clampTopLimit returns an integer from 1 to
\* 50: 10 for what is no finite number, else the number rounded down and held
\* within 1 and 50.  500 gives 50, -3 gives 1 and the text "abc" gives 10.
C29_SanitizersBounded ==
    LET value == ret.arg[1]
        result == ret.value[1]
    IN  /\ ret.op = "toSafeScore" =>
              /\ ret.thrown = NoError
              /\ result \in Nat
              /\ value.kind \notin NumericKinds => result = 0
              /\ value.kind \in NumericKinds =>
                    IF value.num < value.den THEN result = 0
                    ELSE IsFloorOf(result, value.num, value.den)
        /\ ret.op = "clampTopLimit" =>
              /\ ret.thrown = NoError
              /\ result \in 1..50
              /\ value.kind \notin NumericKinds => result = 10
              /\ value.kind \in NumericKinds =>
                    IF value.num < value.den THEN result = 1
                    ELSE IF value.num >= 50 * value.den THEN result = 50
                    ELSE IsFloorOf(result, value.num, value.den)
              /\ value = Num(500) => result = 50
              /\ value = Num(0 - 3) => result = 1
              /\ value = JsText => result = 10

\* clampTopLimit(500) returned 50.
C29_Witness ==
    /\ ret.op = "clampTopLimit"
    /\ ret.arg = <<Num(500)>>
    /\ ret.value = <<50>>

\* C30 (under SpecTie): syncPlayer writes the player's record only for a
\* meaningful change: a call that returns hasMeaningfulChange = false leaves
\* the players it found as they were, creating no record and altering no
\* updatedAt, so that players never changes while the revision stays.
C30_RecordWrittenOnlyOnChange ==
    [][phase = "serving" =>
        /\ (SyncReturned /\ ~ret'.value[1].hasMeaningfulChange) =>
              state'.players = PlayersBefore
        /\ state'.players # state.players => state'.revision # state.revision]_vars

\* A cache holds one entry for each player with a score above 0 and for no
\* other, ranked 1, 2, ... without a gap, each entry before those the
\* comparator puts after it, and its index by uid gives each ranked uid its
\* entry and any other uid nothing.
WellFormedCache(cache, players, scoreOf) ==
    LET entries == cache.entries
        ranked == {players[i].uid : i \in {j \in 1..Len(players) : scoreOf[j] > 0}}
        key(k) == [uid |-> entries[k].uid, score |-> entries[k].score,
                   updatedAt |-> players[PlayerIndex(players, entries[k].uid)].updatedAt]
    IN  /\ {entries[k].uid : k \in 1..Len(entries)} = ranked
        /\ \A k, m \in 1..Len(entries) : entries[k].uid = entries[m].uid => k = m
        /\ \A k \in 1..Len(entries) :
              /\ entries[k].rank = k
              /\ entries[k].score > 0
              /\ entries[k].score = scoreOf[PlayerIndex(players, entries[k].uid)]
        /\ \A k, m \in 1..Len(entries) : k < m => compareEntry(key(k), key(m)) < 0
        /\ \A uid \in ranked :
              /\ Len(RankByPlayerGet(cache, uid)) = 1
              /\ RankByPlayerGet(cache, uid)[1].uid = uid
              /\ entries[RankByPlayerGet(cache, uid)[1].rank] = RankByPlayerGet(cache, uid)[1]
        /\ \A uid \in RankUids \ ranked : RankByPlayerGet(cache, uid) = <<>>

\* C31 (under SpecRank): every ranking cache built, the overall one and each
\* game's, holds exactly the players whose score in that ranking is above 0,
\* each uid once, with the ranks 1..n in comparator order, and its reverse
\* index maps each ranked uid to its own entry and no unranked uid to anything.
C31_CachesWellFormed ==
    LET players == state.players
        overallOf == [i \in 1..Len(players) |-> players[i].overallScore]
        gameOf(g) == [i \in 1..Len(players) |->
                         IF g \in DOMAIN players[i].gameScores
                         THEN players[i].gameScores[g] ELSE 0]
    IN  /\ overallCache # <<>> => WellFormedCache(overallCache[1], players, overallOf)
        /\ \A g \in DOMAIN gameCacheMap :
              WellFormedCache(gameCacheMap[g], players, gameOf(g))

\* Both caches built over three players of which one has the score 0 and the
\* two others are tied.
C31_Witness ==
    /\ Len(state.players) = 3
    /\ \E i \in 1..3 : state.players[i].overallScore = 0
    /\ overallCache # <<>>
    /\ Len(overallCache[1].entries) = 2
    /\ overallCache[1].entries[1].score = overallCache[1].entries[2].score
    /\ G1 \in DOMAIN gameCacheMap
    /\ Len(gameCacheMap[G1].entries) = 2

\* C32 (under SpecLoad): a revision bump drops the overall cache and the whole
\* per-game cache map together: a call other than getSnapshot that changes the
\* revision leaves no cache at all, and after every call each cache that
\* exists, overall or of a game, carries the revision the store has.
C32_CachesCarryRevision ==
    [][/\ (overallCache' # <<>> => overallCache'[1].revision = state'.revision)
       /\ \A g \in DOMAIN gameCacheMap' : gameCacheMap'[g].revision = state'.revision
       /\ (state'.revision # state.revision /\ ret'.op # "getSnapshot") =>
             (overallCache' = <<>> /\ gameCacheMap' = EmptyMap)]_vars

\* A sync bumped the revision of a store that held the overall cache and the
\* caches of two games, and left none.
C32_Witness ==
    /\ ret.op = "syncPlayer"
    /\ ret.value # <<>>
    /\ ret.value[1].hasMeaningfulChange
    /\ ret.arg[1].playerId = Str(P1)
    /\ overallCache = <<>>
    /\ gameCacheMap = EmptyMap
    /\ \E i \in 1..Len(state.players) : G2 \in DOMAIN state.players[i].gameScores

\* The step is a syncPlayer call, the season roll at its top included.
StoreMutationCall == ret'.op = "syncPlayer"

\* C33 (under SpecAtomic): a store mutation is one step that nothing else
\* shares: the step of a syncPlayer call, season reset included, touches no file
\* and no persist in flight, runs no timer callback and at most sets the
\* debounce timer; the state changes in no step of a timer callback, a file
\* write or a rename; and a persistNow is started only by the step of a timer
\* callback or of a shutdown signal.
C33_MutationIsOneStep ==
    [][/\ StoreMutationCall =>
             /\ UNCHANGED <<inflight, tempFile, dataFile, persistCalls, now>>
             /\ timers' = timers \/ timers' = Append(timers, now + SAVE_DEBOUNCE_MS)
       /\ state' # state => StoreMutationCall
       /\ Len(inflight') > Len(inflight) => ret'.op \in {"timer", "shutdown"}
       /\ (\E i \in 1..Len(inflight') :
              \A j \in 1..Len(inflight) : inflight'[i] # inflight[j]
                                            /\ inflight'[i].pc = "open") =>
             ret'.op \in {"timer", "shutdown"}]_vars

\* A sync changed the state and set the debounce timer while the persist that
\* a shutdown signal had started was between its open and its write.
C33_Witness ==
    /\ ret.op = "syncPlayer"
    /\ ret.value # <<>>
    /\ ret.value[1].hasMeaningfulChange
    /\ Len(inflight) = 1
    /\ inflight[1].final
    /\ inflight[1].pc = "write"
    /\ persistTimer # <<>>

\* C34 (under SpecRoute): a snapshot request whose topLimit parameter is absent
\* or empty is answered with the first min(10, number of ranked players)
\* entries of each ranking.
C34_AbsentTopLimitServesTen ==
    (/\ ret.op = "snapshot"
     /\ ret.value # <<>>
     /\ ret.arg[1].topLimit \in {JsNull, JsEmptyString}) =>
        LET snap == ret.value[1]
        IN  /\ snap.overallTop = Slice(overallCache[1].entries, 10)
            /\ \A g \in DOMAIN snap.games :
                   snap.games[g].top = Slice(GameCacheOf(Store, Str(g)).entries, 10)

\* C35 (under SpecTie): a ranking cache tagged with the current revision holds
\* the ranking computed afresh from the current players, for the overall
\* ranking and for the ranking of each game in gameCacheMap.
C35_CacheEqualsFreshRanking ==
    LET players == state.players
    IN  /\ (overallCache # <<>> /\ overallCache[1].revision = state.revision) =>
               overallCache[1].entries = RankEntries(players, OverallScores(players), now)
        /\ \A g \in DOMAIN gameCacheMap :
               gameCacheMap[g].revision = state.revision =>
                   gameCacheMap[g].entries =
                       RankEntries(players,
                                   [i \in 1..Len(players) |-> GameScoreOf(players[i], g)],
                                   now)

\* C36 (under SpecIO): at most one persistNow is in flight at any time, so that
\* no two of them, started by a debounce timer or by a shutdown signal, are
\* between their open and their rename of the one temp file together.
C36_OnePersistInFlight == Len(inflight) <= 1

\* The revision of the document in the store file, 0 with no whole document.
PersistedRevision ==
    IF dataFile.kind = "json" THEN dataFile.doc.revision.num ELSE 0

\* C37 (under SpecPersist): while timers fire, no file operation fails from
\* outside and the process runs on, whenever the revision in memory has been
\* bumped past the one load left and is ahead of the one in the store file, a
\* persist is pending on the debounce timer or in flight, so that every bump is
\* followed by a completed persist of a state with at least that revision.
C37_AheadMeansPersistComing ==
    (/\ state.revision > createEmptyState(now).revision
     /\ PersistedRevision < state.revision) =>
        (persistTimer # <<>> \/ inflight # <<>>)

\* C38 (under SpecRestart): a store started on the file persistNow wrote from
\* the state in memory, while the season of that state is still the current
\* one, holds the revision, the season and the players that were written, and
\* empty caches.
C38_PersistLoadRoundTrip ==
    [][(/\ ret'.op = "restart"
        /\ dataFile = Json(Stringify(state))
        /\ state.season = computeKstSeasonWindow(now)) =>
        /\ state'.revision = state.revision
        /\ state'.season = state.season
        /\ state'.players = state.players
        /\ overallCache' = <<>>
        /\ gameCacheMap' = EmptyMap]_vars

\* C39 (under SpecFlush): when the process has exited after a shutdown signal
\* whose final persist succeeded, the store file holds the state the memory
\* held at the exit, the mutations accepted between the signal and the exit
\* included.
C39_NoMutationLostAtExit ==
    (phase = "exited" /\ finalDone # <<>> /\ finalDone[1].ok) =>
        dataFile = Json(Stringify(state))

====
